---- MODULE Spec2Model ----
(***************************************************************************)
(* State-machine model of the coordination core of PyQT-reactive:          *)
(*   - LiveContextService (token, manager registry, listeners, collect,    *)
(*     merge_ancestor_values, trigger_global_refresh)                      *)
(*   - CrossWindowPreviewMixin (scope routing and trailing debounce)       *)
(* Strings that the code splits or tests for emptiness (scope ids) are     *)
(* sequences of one-character strings, so "" is <<>> and "A::B" is         *)
(* <<"A", ":", ":", "B">>.  An Optional value is a sequence of length 0    *)
(* (None) or 1 (the value).                                                *)
(***************************************************************************)
EXTENDS Integers, Sequences, FiniteSets, TLC

VARIABLES
    \* ---- LiveContextService class attributes
    active_form_managers,        \* WeakSet of registered managers
    change_callbacks,            \* list of listener callbacks
    live_context_token_counter,  \* the global token
    live_context_cache,          \* TokenCache: <<>> or <<[token, value]>>
    \* ---- environment of LiveContextService
    dispatch_cache,              \* get_dispatch_cache(): <<>> (None) or <<dict>>
    snapCount,                   \* number of LiveContextSnapshot objects built
    \* ---- observation of LiveContextService calls
    lastSnap,                    \* <<>> or <<snapshot returned by the last collect()>>
    since,                       \* what happened since the last collect()
    cycleFirst,                  \* <<>> or <<first snapshot collect() returned in this cycle>>
    log,                         \* what the last service call did
    \* ---- merge_ancestor_values call
    mg_scopes, mg_my_scope, mg_result,
    \* ---- CrossWindowPreviewMixin
    preview_scope_map,           \* dict scope id -> item key
    pending_preview_keys,        \* set of item keys
    preview_update_timer,        \* <<>> (None) or <<timer id>>
    timers,                      \* the QTimer objects still running: id -> hook
    timerCount,                  \* number of QTimer objects created
    burst,                       \* observation of the calls since the last quiet state
    full_requested,              \* observation: a null scope id was routed since the last firing
    pcall,                       \* observation: the last handler call (where it is recorded)
    \* ---- WindowManager and the windows it knows
    scoped_windows,              \* dict scope id -> window (index into windows)
    windows,                     \* the QWidget objects constructed so far
    active_window,               \* QApplication.activeWindow(): <<>> or <<window>>
    wlog,                        \* observation: what the last operation or event did
    \* ---- deferred navigation
    window_attrs,                \* per window: form manager, widgets, hooks, _nav_retry_count
    nav_timers,                  \* pending QTimer.singleShot(_check_and_navigate) closures
    nav_log,                     \* observation: hook invocations and give-ups per request
    \* ---- IntervalSnapshotPoller
    poll_snapshot,               \* _snapshot: <<>> (None) or the retained snapshot object
    inflight,                    \* _inflight
    inflight_generation,         \* _inflight_generation: <<>> (None) or <<generation>>
    last_poll_ts,                \* _last_poll_ts
    generation,                  \* _generation
    poll_interval_seconds,       \* _policy.poll_interval_seconds
    clock,                       \* time.time()
    workers,                     \* the threads running _poll_worker
    pobs,                        \* observation: poll starts and resets so far
    plog,                        \* observation: what the last poller step did
    \* ---- FunctionListEditorWidget
    editor,                      \* the attributes of one editor widget and what it persisted
    \* ---- ZMQServerBrowserWidgetABC
    browser                      \* one browser widget, its scan threads and queued signals

liveVars == <<active_form_managers, change_callbacks, live_context_token_counter,
              live_context_cache, dispatch_cache, snapCount, lastSnap, since,
              cycleFirst, log>>
mergeVars == <<mg_scopes, mg_my_scope, mg_result>>
previewVars == <<preview_scope_map, pending_preview_keys, preview_update_timer,
                 timers, timerCount, burst, full_requested>>
windowVars == <<scoped_windows, windows, active_window, wlog>>
navVars == <<window_attrs, nav_timers, nav_log>>
pollVars == <<poll_snapshot, inflight, inflight_generation, last_poll_ts, generation,
              poll_interval_seconds, clock, workers, pobs, plog>>
editorVars == <<editor>>
browserVars == <<browser>>
vars == <<liveVars, mergeVars, previewVars, pcall, windowVars, navVars, pollVars, editorVars,
          browserVars>>

\* what the operations of one component leave alone
notLive == <<mergeVars, previewVars, pcall, windowVars, navVars, pollVars, editorVars,
            browserVars>>
notMerge == <<liveVars, previewVars, pcall, windowVars, navVars, pollVars, editorVars,
             browserVars>>
notPreview == <<liveVars, mergeVars, windowVars, navVars, pollVars, editorVars, browserVars>>
notWindow == <<liveVars, mergeVars, previewVars, pcall, pollVars, editorVars, browserVars>>
notPoll == <<liveVars, mergeVars, previewVars, pcall, windowVars, navVars, editorVars,
            browserVars>>
notEditor == <<liveVars, mergeVars, previewVars, pcall, windowVars, navVars, pollVars,
              browserVars>>
notBrowser == <<liveVars, mergeVars, previewVars, pcall, windowVars, navVars, pollVars,
               editorVars>>

\* ------------------------------------------------------------------ bounds
MaxToken == 3
MaxSnap == 4
MaxLen == 4
MaxTimers == 4
MaxWindows == 2
MaxPending == 1
MaxClock == 2
MaxInterval == 1
MaxGeneration == 2
MaxWorkers == 2
MaxFuncs == 2
MaxFuncTokens == 3
MaxScans == 3

\* "if retry_count < 10"
MaxRetries == 10

\* ------------------------------------------------------------ generic helpers
Range(s) == {s[i] : i \in 1..Len(s)}

None == <<>>

Some(v) == <<v>>

\* list.remove(x): the list without the first element equal to x
RECURSIVE ListRemove(_, _)
ListRemove(s, x) ==
    IF s = <<>> THEN <<>>
    ELSE IF Head(s) = x THEN Tail(s)
    ELSE <<Head(s)>> \o ListRemove(Tail(s), x)

\* dict.update(other): other's items win
DictUpdate(d, other) ==
    [k \in DOMAIN d \cup DOMAIN other |-> IF k \in DOMAIN other THEN other[k] ELSE d[k]]

EmptyDict == [k \in {} |-> 0]

\* d[k] = v on a dict
DictSet(d, k, v) == [j \in DOMAIN d \cup {k} |-> IF j = k THEN v ELSE d[j]]

\* all orders in which a set can be iterated
RECURSIVE Orders(_)
Orders(S) ==
    IF S = {} THEN {<<>>}
    ELSE UNION {{<<x>> \o o : o \in Orders(S \ {x})} : x \in S}

\* ------------------------------------------------- the form managers at hand
\* ParameterFormManager objects as LiveContextService reads them: scope_id
\* (Optional[str]), object_instance (None or an instance of a type),
\* get_user_modified_values() and nested_managers (dict, in insertion order).
Managers == {"M1", "N1", "M2", "M3", "M4", "N2"}

RootManagers == {"M1", "M2", "M3", "M4"}

ManagerAttrs ==
    [M1 |-> [scope_id |-> None, object_instance |-> Some("T"),
             values |-> [count |-> 1], nested_managers |-> <<"N1">>],
     N1 |-> [scope_id |-> None, object_instance |-> Some("U"),
             values |-> [flag |-> 1], nested_managers |-> <<>>],
     M2 |-> [scope_id |-> Some(<<"x">>), object_instance |-> Some("T"),
             values |-> [count |-> 2], nested_managers |-> <<>>],
     M3 |-> [scope_id |-> Some(<<>>), object_instance |-> Some("T"),
             values |-> [count |-> 3], nested_managers |-> <<>>],
     M4 |-> [scope_id |-> Some(<<"x">>), object_instance |-> None,
             values |-> EmptyDict, nested_managers |-> <<"N2">>],
     N2 |-> [scope_id |-> Some(<<"x">>), object_instance |-> Some("U"),
             values |-> [flag |-> 2], nested_managers |-> <<>>]]

\* ------------------------------------------------------------- the listeners
Listeners == {"L1", "L2"}

\* What a listener callback does when _notify_change reaches it:
\*   ok            returns
\*   sip_deleted   its bound object is a deleted Qt object (sip.isdeleted)
\*   raise_deleted raises RuntimeError("wrapped C/C++ object ... has been deleted")
\*   raise_runtime raises a RuntimeError whose text does not mention "deleted"
\*   raise_other   raises an Exception that is no RuntimeError
\*   disconnect x  calls LiveContextService.disconnect_listener(x) and returns
\*   connect x     calls LiveContextService.connect_listener(x) and returns
SimpleBehaviours ==
    {[k |-> b, x |-> "-"] :
        b \in {"ok", "sip_deleted", "raise_deleted", "raise_runtime", "raise_other"}}

Behaviours ==
    SimpleBehaviours \cup
    {[k |-> b, x |-> l] : b \in {"disconnect", "connect"}, l \in Listeners}

Quiet == [k |-> "ok", x |-> "-"]

\* The behaviours of one notification: one per listener in the list when the
\* notification starts; a listener connected while it runs returns normally.
BehaviourChoices(cbs) ==
    {[l \in Listeners |-> IF l \in Range(cbs) THEN f[l] ELSE Quiet] :
        f \in [Range(cbs) -> Behaviours]}

Ev(k, x) == [k |-> k, x |-> x]

\* What happened since the last collect() call: a token bump, register and
\* unregister calls, a dispatch cycle beginning or ending; and whether that
\* collect() was answered from the dispatch cycle's cache.
NoSince == [bumped |-> FALSE, registered |-> {}, unregistered |-> {}, boundary |-> FALSE,
            viaDispatch |-> FALSE, dropped |-> {}]

\* The last service call: its name and argument, whether the argument was
\* registered (connected) before it (for collect: whether a collect() came before),
\* the listener list at its start, what each visited listener did, the events in
\* order, the exception that reached the caller, and for collect the value of
\* "since" before the call.
NoLog == [tick |-> 0, op |-> "-", arg |-> "-", had |-> FALSE, start |-> <<>>,
          beh |-> [l \in Listeners |-> Quiet], events |-> <<>>, escaped |-> "-",
          prior |-> NoSince]

\* ------------------------------------------------- LiveContextService: listeners
connect_listener(cbs, callback) ==
    IF callback \notin Range(cbs) THEN Append(cbs, callback) ELSE cbs

disconnect_listener(cbs, callback) ==
    IF callback \in Range(cbs) THEN ListRemove(cbs, callback) ELSE cbs

\* "for cb in dead_callbacks: cls._change_callbacks.remove(cb)": list.remove
\* raises ValueError when cb is no longer in the list, and the loop ends there.
RECURSIVE RemoveDead(_, _, _)
RemoveDead(cbs, dead, ev) ==
    IF dead = <<>> THEN [callbacks |-> cbs, events |-> ev, escaped |-> "none"]
    ELSE IF Head(dead) \in Range(cbs)
         THEN RemoveDead(ListRemove(cbs, Head(dead)), Tail(dead),
                         Append(ev, Ev("removed", Head(dead))))
         ELSE [callbacks |-> cbs, events |-> ev, escaped |-> "ValueError"]

\* One callback of the loop body: the new list, whether it is marked dead, the event.
CallbackStep(cbs, cb, b) ==
    CASE b.k = "sip_deleted"   -> [callbacks |-> cbs, dead |-> TRUE,  ev |-> Ev("skipped", cb)]
      [] b.k = "ok"            -> [callbacks |-> cbs, dead |-> FALSE, ev |-> Ev("called", cb)]
      [] b.k = "raise_deleted" -> [callbacks |-> cbs, dead |-> TRUE,  ev |-> Ev("called", cb)]
      [] b.k = "raise_runtime" -> [callbacks |-> cbs, dead |-> FALSE, ev |-> Ev("called", cb)]
      [] b.k = "raise_other"   -> [callbacks |-> cbs, dead |-> FALSE, ev |-> Ev("called", cb)]
      [] b.k = "disconnect"    -> [callbacks |-> disconnect_listener(cbs, b.x), dead |-> FALSE,
                                   ev |-> Ev("called", cb)]
      [] b.k = "connect"       -> [callbacks |-> connect_listener(cbs, b.x), dead |-> FALSE,
                                   ev |-> Ev("called", cb)]

\* "for callback in cls._change_callbacks": the list iterator holds an index into
\* the live list, so a callback that changes the list changes what is visited.
RECURSIVE NotifyLoop(_, _, _, _, _)
NotifyLoop(cbs, i, dead, ev, beh) ==
    IF i > Len(cbs) THEN RemoveDead(cbs, dead, ev)
    ELSE LET cb == cbs[i]
             r == CallbackStep(cbs, cb, beh[cb])
         IN NotifyLoop(r.callbacks, i + 1,
                       IF r.dead THEN Append(dead, cb) ELSE dead,
                       Append(ev, r.ev), beh)

notify_change(cbs, beh) == NotifyLoop(cbs, 1, <<>>, <<>>, beh)

\* (mutant) the token is bumped only when listeners are notified
increment_token_only_notifying(tok, cbs, notify, beh) ==
    LET n == IF notify THEN notify_change(cbs, beh)
             ELSE [callbacks |-> cbs, events |-> <<>>, escaped |-> "none"]
    IN [token |-> IF notify THEN tok + 1 ELSE tok, callbacks |-> n.callbacks,
        events |-> <<Ev("bump", "-")>> \o n.events, escaped |-> n.escaped]

\* increment_token(notify): the new token, and what the notification did
increment_token(tok, cbs, notify, beh) ==
    LET n == IF notify THEN notify_change(cbs, beh)
             ELSE [callbacks |-> cbs, events |-> <<>>, escaped |-> "none"]
    IN [token |-> tok + 1, callbacks |-> n.callbacks,
        events |-> <<Ev("bump", "-")>> \o n.events, escaped |-> n.escaped]

Visited(events) == {events[i].x : i \in {j \in 1..Len(events) : events[j].k \in {"called", "skipped"}}}

MakeLog(op, arg, cbs, beh, events, escaped) ==
    [tick |-> 1 - log.tick, op |-> op, arg |-> arg,
     had |-> arg \in active_form_managers \/ arg \in Range(change_callbacks), start |-> cbs,
     beh |-> [l \in Listeners |-> IF l \in Visited(events) THEN beh[l] ELSE Quiet],
     events |-> events, escaped |-> escaped, prior |-> NoSince]

ApplyBump(op, arg, r, beh) ==
    /\ live_context_token_counter' = r.token
    /\ change_callbacks' = r.callbacks
    /\ log' = MakeLog(op, arg, change_callbacks, beh, r.events, r.escaped)

\* ------------------------------------------------- LiveContextService: registry
\* (mutant) register calls increment_token() with its default notify=True
register_notifying(manager) ==
    /\ live_context_token_counter < MaxToken
    /\ active_form_managers' = active_form_managers \cup {manager}
    /\ \E beh \in BehaviourChoices(change_callbacks) :
          ApplyBump("register", manager,
                    increment_token(live_context_token_counter, change_callbacks, TRUE, beh),
                    beh)
    /\ since' = [since EXCEPT !.bumped = TRUE, !.registered = @ \cup {manager}]
    /\ UNCHANGED <<live_context_cache, dispatch_cache, snapCount, lastSnap, cycleFirst>>
    /\ UNCHANGED notLive

\* (mutant) register adds the manager and leaves the token alone
register_without_bump(manager) ==
    /\ live_context_token_counter < MaxToken
    /\ active_form_managers' = active_form_managers \cup {manager}
    /\ UNCHANGED <<live_context_token_counter, change_callbacks>>
    /\ log' = MakeLog("register", manager, change_callbacks, [l \in Listeners |-> Quiet],
                      <<>>, "none")
    /\ since' = [since EXCEPT !.registered = @ \cup {manager}]
    /\ UNCHANGED <<live_context_cache, dispatch_cache, snapCount, lastSnap, cycleFirst>>
    /\ UNCHANGED notLive

register(manager) ==
    /\ live_context_token_counter < MaxToken
    /\ active_form_managers' = active_form_managers \cup {manager}
    /\ ApplyBump("register", manager,
                 increment_token(live_context_token_counter, change_callbacks, FALSE,
                                 [l \in Listeners |-> Quiet]),
                 [l \in Listeners |-> Quiet])
    /\ since' = [since EXCEPT !.bumped = TRUE, !.registered = @ \cup {manager}]
    /\ UNCHANGED <<live_context_cache, dispatch_cache, snapCount, lastSnap, cycleFirst>>
    /\ UNCHANGED notLive

unregister(manager) ==
    /\ live_context_token_counter < MaxToken
    /\ active_form_managers' = active_form_managers \ {manager}
    /\ \E beh \in BehaviourChoices(change_callbacks) :
          ApplyBump("unregister", manager,
                    increment_token(live_context_token_counter, change_callbacks, TRUE, beh),
                    beh)
    /\ since' = [since EXCEPT !.bumped = TRUE, !.unregistered = @ \cup {manager}]
    /\ UNCHANGED <<live_context_cache, dispatch_cache, snapCount, lastSnap, cycleFirst>>
    /\ UNCHANGED notLive

\* (mutant) a manager that is garbage-collected invalidates the cache
GarbageCollect_bumping(manager) ==
    /\ manager \in active_form_managers
    /\ live_context_token_counter < MaxToken
    /\ active_form_managers' = active_form_managers \ {manager}
    /\ ApplyBump("gc", manager,
                 increment_token(live_context_token_counter, change_callbacks, FALSE,
                                 [l \in Listeners |-> Quiet]),
                 [l \in Listeners |-> Quiet])
    /\ since' = [since EXCEPT !.bumped = TRUE, !.dropped = @ \cup {manager}]
    /\ UNCHANGED <<live_context_cache, dispatch_cache, snapCount, lastSnap, cycleFirst>>
    /\ UNCHANGED notLive

\* the last strong reference to a registered manager goes away without an
\* unregister call: the WeakSet drops it, no method of the service runs
GarbageCollect(manager) ==
    /\ manager \in active_form_managers
    /\ active_form_managers' = active_form_managers \ {manager}
    /\ log' = MakeLog("gc", manager, change_callbacks, [l \in Listeners |-> Quiet],
                      <<>>, "none")
    /\ since' = [since EXCEPT !.dropped = @ \cup {manager}]
    /\ UNCHANGED <<change_callbacks, live_context_token_counter, live_context_cache,
                   dispatch_cache, snapCount, lastSnap, cycleFirst>>
    /\ UNCHANGED notLive

IncrementToken(notify) ==
    /\ live_context_token_counter < MaxToken
    /\ \E beh \in BehaviourChoices(IF notify THEN change_callbacks ELSE <<>>) :
          ApplyBump(IF notify THEN "increment_token" ELSE "increment_token_quiet", "-",
                    increment_token(live_context_token_counter, change_callbacks, notify, beh),
                    beh)
    /\ since' = [since EXCEPT !.bumped = TRUE]
    /\ UNCHANGED <<active_form_managers, live_context_cache, dispatch_cache, snapCount,
                   lastSnap, cycleFirst>>
    /\ UNCHANGED notLive

ConnectListener(callback) ==
    /\ change_callbacks' = connect_listener(change_callbacks, callback)
    /\ log' = MakeLog("connect_listener", callback, change_callbacks,
                      [l \in Listeners |-> Quiet], <<>>, "none")
    /\ UNCHANGED <<active_form_managers, live_context_token_counter, live_context_cache,
                   dispatch_cache, snapCount, lastSnap, since, cycleFirst>>
    /\ UNCHANGED notLive

DisconnectListener(callback) ==
    /\ change_callbacks' = disconnect_listener(change_callbacks, callback)
    /\ log' = MakeLog("disconnect_listener", callback, change_callbacks,
                      [l \in Listeners |-> Quiet], <<>>, "none")
    /\ UNCHANGED <<active_form_managers, live_context_token_counter, live_context_cache,
                   dispatch_cache, snapCount, lastSnap, since, cycleFirst>>
    /\ UNCHANGED notLive

\* ------------------------------------------------- LiveContextService: global refresh
\* ParameterOpsService.refresh_with_live_context(manager) either returns or raises
\* an Exception; the managers are visited in the WeakSet's iteration order.
RefreshEvents(order, outcome) ==
    [i \in 1..Len(order) |->
        Ev(IF outcome[order[i]] = "raise" THEN "refresh_raised" ELSE "refresh_ok", order[i])]

\* (mutant) no try/except around the refresh: the first failure ends the call
trigger_global_refresh_unguarded ==
    /\ live_context_token_counter < MaxToken
    /\ \E order \in Orders(active_form_managers) :
       \E outcome \in [active_form_managers -> {"ok", "raise"}] :
       \E beh \in BehaviourChoices(change_callbacks) :
          LET r == increment_token(live_context_token_counter, change_callbacks, TRUE, beh)
              failed == {i \in 1..Len(order) : outcome[order[i]] = "raise"}
              first == CHOOSE i \in failed : \A j \in failed : i <= j
          IN IF failed = {}
             THEN ApplyBump("trigger_global_refresh", "-",
                            [r EXCEPT !.events = RefreshEvents(order, outcome) \o @], beh)
             ELSE ApplyBump("trigger_global_refresh", "-",
                            [token |-> live_context_token_counter,
                             callbacks |-> change_callbacks,
                             events |-> SubSeq(RefreshEvents(order, outcome), 1, first),
                             escaped |-> "refresh_error"], beh)
    /\ since' = [since EXCEPT !.bumped = TRUE]
    /\ UNCHANGED <<active_form_managers, live_context_cache, dispatch_cache, snapCount,
                   lastSnap, cycleFirst>>
    /\ UNCHANGED notLive

trigger_global_refresh ==
    /\ live_context_token_counter < MaxToken
    /\ \E order \in Orders(active_form_managers) :
       \E outcome \in [active_form_managers -> {"ok", "raise"}] :
       \E beh \in BehaviourChoices(change_callbacks) :
          LET r == increment_token(live_context_token_counter, change_callbacks, TRUE, beh)
          IN ApplyBump("trigger_global_refresh", "-",
                       [r EXCEPT !.events = RefreshEvents(order, outcome) \o @], beh)
    /\ since' = [since EXCEPT !.bumped = TRUE]
    /\ UNCHANGED <<active_form_managers, live_context_cache, dispatch_cache, snapCount,
                   lastSnap, cycleFirst>>
    /\ UNCHANGED notLive

\* ------------------------------------------------- LiveContextService: collect
\* "manager.scope_id or ''": None and the empty string both give the root scope
ScopeKey(manager) ==
    LET sid == ManagerAttrs[manager].scope_id
    IN IF sid = None \/ sid[1] = <<>> THEN <<>> ELSE sid[1]

\* scopes.setdefault(scope_id, {})[type(manager.object_instance)] = values
SetScopeEntry(scopes, scope_id, type, values) ==
    DictSet(scopes, scope_id,
            DictSet(IF scope_id \in DOMAIN scopes THEN scopes[scope_id] ELSE EmptyDict,
                    type, values))

\* (mutant) the manager's own values only, no recursion into nested managers
collect_from_manager_only(manager, scopes) ==
    LET a == ManagerAttrs[manager]
    IN IF a.object_instance # None
       THEN SetScopeEntry(scopes, ScopeKey(manager), a.object_instance[1], a.values)
       ELSE scopes

RECURSIVE collect_from_manager_tree(_, _), CollectNested(_, _, _)
collect_from_manager_tree(manager, scopes) ==
    LET a == ManagerAttrs[manager]
        own == IF a.object_instance # None
               THEN SetScopeEntry(scopes, ScopeKey(manager), a.object_instance[1], a.values)
               ELSE scopes
    IN CollectNested(a.nested_managers, 1, own)

CollectNested(nested, i, scopes) ==
    IF i > Len(nested) THEN scopes
    ELSE CollectNested(nested, i + 1, collect_from_manager_tree(nested[i], scopes))

RECURSIVE CollectAll(_, _, _)
CollectAll(order, i, scopes) ==
    IF i > Len(order) THEN scopes
    ELSE CollectAll(order, i + 1, collect_from_manager_tree(order[i], scopes))

\* A new LiveContextSnapshot object; id is the object's identity.
compute_live_context(order) ==
    [id |-> snapCount + 1, token |-> live_context_token_counter,
     scopes |-> CollectAll(order, 1, EmptyDict)]

\* TokenCache.get_or_compute(key, compute): the value stored under key when it was
\* stored under the current token, else the computed value, which is stored.
get_or_compute(entries, key, current_token, computed) ==
    IF key \in DOMAIN entries /\ entries[key].token = current_token
    THEN [entries |-> entries, value |-> entries[key].value, hit |-> TRUE]
    ELSE [entries |-> DictSet(entries, key, [token |-> current_token, value |-> computed]),
          value |-> computed, hit |-> FALSE]

\* (mutant) a new TokenCache on every call
ensure_token_cache_always_new(cache) == Some(EmptyDict)

\* "if cls._live_context_cache is None: cls._live_context_cache = TokenCache(...)"
ensure_token_cache(cache) == IF cache = None THEN Some(EmptyDict) ELSE cache

\* CacheKey.from_args() without arguments: the one cache entry
cache_key == "()"

\* (mutant) the dispatch cycle cache is never consulted
dispatch_cache_hit_never(dc) == FALSE

\* "if dispatch_cache is not None: if ('live_context',) in dispatch_cache"
dispatch_cache_hit(dc) == dc # None /\ "live_context" \in DOMAIN dc[1]

\* "if dispatch_cache is not None: dispatch_cache[('live_context',)] = snapshot"
dispatch_cache_store(dc, snapshot) ==
    IF dc # None THEN Some(DictSet(dc[1], "live_context", snapshot)) ELSE dc

\* What every collect() call records, whatever it returns.
Collected(snapshot, viaDispatch) ==
    /\ lastSnap' = Some(snapshot)
    /\ log' = [MakeLog("collect", "-", change_callbacks, [l \in Listeners |-> Quiet],
                       <<>>, "none")
                 EXCEPT !.had = lastSnap # None, !.prior = since]
    /\ since' = [NoSince EXCEPT !.viaDispatch = viaDispatch]
    /\ cycleFirst' = IF dispatch_cache # None /\ cycleFirst = None
                     THEN Some(snapshot) ELSE cycleFirst

collect ==
    /\ UNCHANGED <<active_form_managers, change_callbacks, live_context_token_counter>>
    /\ UNCHANGED notLive
    /\ IF dispatch_cache_hit(dispatch_cache)
       THEN /\ Collected(dispatch_cache[1]["live_context"], TRUE)
            /\ UNCHANGED <<live_context_cache, dispatch_cache, snapCount>>
       ELSE \E order \in Orders(active_form_managers) :
               LET r == get_or_compute(ensure_token_cache(live_context_cache)[1], cache_key,
                                       live_context_token_counter,
                                       compute_live_context(order))
               IN /\ r.hit \/ snapCount < MaxSnap
                  /\ live_context_cache' = Some(r.entries)
                  /\ snapCount' = IF r.hit THEN snapCount ELSE snapCount + 1
                  /\ dispatch_cache' = dispatch_cache_store(dispatch_cache, r.value)
                  /\ Collected(r.value, FALSE)

\* A dispatch cycle begins: get_dispatch_cache() returns a new empty dict.
BeginDispatch ==
    /\ dispatch_cache = None
    /\ dispatch_cache' = Some(EmptyDict)
    /\ cycleFirst' = None
    /\ since' = [since EXCEPT !.boundary = TRUE]
    /\ UNCHANGED <<active_form_managers, change_callbacks, live_context_token_counter,
                   live_context_cache, snapCount, lastSnap, log>>
    /\ UNCHANGED notLive

\* The dispatch cycle ends: get_dispatch_cache() returns None again.
EndDispatch ==
    /\ dispatch_cache # None
    /\ dispatch_cache' = None
    /\ cycleFirst' = None
    /\ since' = [since EXCEPT !.boundary = TRUE]
    /\ UNCHANGED <<active_form_managers, change_callbacks, live_context_token_counter,
                   live_context_cache, snapCount, lastSnap, log>>
    /\ UNCHANGED notLive

\* ------------------------------------------------------------ initial states
\* The state after the classes are loaded and one mixin is initialised; no
\* merge_ancestor_values call is at hand.
\* no WindowManager operation or window event recorded
NoWlog ==
    [op |-> "-", scope |-> "-", window |-> 0, factory |-> FALSE, raised |-> FALSE,
     activated |-> FALSE, original |-> FALSE, stale |-> FALSE]

\* ---- FunctionListEditorWidget: values that Init names
\* a list pattern, and a list of tokens
ListPattern(l) == [dict |-> FALSE, keys |-> <<>>, items |-> <<>>, list |-> l]

\* a dict pattern (or a dict of token lists): keys in insertion order
DictPattern(keys, items) == [dict |-> TRUE, keys |-> keys, items |-> items, list |-> <<>>]

\* no editor widget has been constructed
NoEditor ==
    [constructed |-> FALSE, is_dict_mode |-> FALSE, pattern_data |-> ListPattern(<<>>),
     pattern_tokens |-> ListPattern(<<>>), functions |-> <<>>,
     current_function_tokens |-> <<>>, selected_pattern_key |-> <<>>,
     func_token_generator |-> 0, metadata |-> ListPattern(<<>>),
     last_op |-> [name |-> "-", index |-> 0, direction |-> 0]]

\* ---- ZMQServerBrowserWidgetABC: values that Init names
\* the widget after __init__: an empty server list, no scan started.  scans are
\* the threads running _scan_and_emit, queue the _scan_complete signals that wait
\* in the event queue of the UI thread; started, applied, replaced and last_op
\* are observations (applied: the scan whose result is the server list,
\* replaced: the scan whose result was the list before).
NewBrowser ==
    [servers |-> <<>>, is_cleaning_up |-> FALSE, scans |-> <<>>, queue |-> <<>>,
     started |-> 0, applied |-> 0, replaced |-> 0, last_op |-> "-"]

\* ---- IntervalSnapshotPoller: values that Init names
\* time.time() when the poller is constructed: seconds since 1970, later than
\* any poll interval
Epoch == MaxInterval + 1

\* no worker
NoWorker ==
    [generation |-> 0, stale |-> FALSE, pc |-> "-", result |-> None, error |-> "-",
     fetch_raised |-> FALSE, applied |-> FALSE, prev |-> None, wrote |-> FALSE,
     recovery |-> FALSE,
     chg_calls |-> 0, chg_arg |-> None, err_calls |-> 0, err_arg |-> "-"]

\* no poll started, no reset made
NoPobs == [last_start |-> None, reset_since |-> FALSE, reset_inflight |-> FALSE,
           fresh |-> FALSE]

\* no poller step recorded
NoPlog == [op |-> "-", started |-> FALSE, ret |-> None, w |-> NoWorker]

\* no handler call recorded
NoCall == [tick |-> 0, op |-> "-", process |-> FALSE, scope_id |-> None]

Init ==
    /\ active_form_managers = {}
    /\ change_callbacks = <<>>
    /\ live_context_token_counter = 0
    /\ live_context_cache = None
    /\ dispatch_cache = None
    /\ snapCount = 0
    /\ lastSnap = None
    /\ since = NoSince
    /\ cycleFirst = None
    /\ log = NoLog
    /\ mg_scopes = EmptyDict
    /\ mg_my_scope = <<>>
    /\ mg_result = None
    /\ preview_scope_map = EmptyDict
    /\ pending_preview_keys = {}
    /\ preview_update_timer = None
    /\ timers = {}
    /\ timerCount = 0
    /\ burst = None
    /\ full_requested = FALSE
    /\ pcall = NoCall
    /\ scoped_windows = EmptyDict
    /\ windows = <<>>
    /\ active_window = None
    /\ wlog = NoWlog
    /\ window_attrs = <<>>
    /\ nav_timers = <<>>
    /\ nav_log = None
    /\ poll_snapshot = None
    /\ inflight = FALSE
    /\ inflight_generation = None
    /\ last_poll_ts = 0
    /\ generation = 0
    /\ poll_interval_seconds = 1
    /\ clock = Epoch
    /\ workers = <<>>
    /\ pobs = NoPobs
    /\ plog = NoPlog
    /\ editor = NoEditor
    /\ browser = NewBrowser

\* ------------------------------------------- registry and snapshot collection
CollectNext ==
    \/ \E m \in RootManagers \cup {"N1"} : register(m)
    \/ \E m \in RootManagers \cup {"N1"} : unregister(m)
    \/ IncrementToken(TRUE)
    \/ collect
    \/ BeginDispatch
    \/ EndDispatch

SpecCollect == Init /\ [][CollectNext]_vars

\* the same with managers that are garbage-collected while registered
CollectGCNext ==
    \/ \E m \in {"M1", "M2"} : register(m)
    \/ \E m \in {"M1", "M2"} : unregister(m)
    \/ \E m \in {"M1", "M2"} : GarbageCollect(m)
    \/ IncrementToken(TRUE)
    \/ collect
    \/ BeginDispatch
    \/ EndDispatch

SpecCollectGC == Init /\ [][CollectGCNext]_vars

\* ------------------------------------------- token, listeners, global refresh
NotifyNext ==
    \/ \E m \in {"M1", "M2"} : register(m)
    \/ \E m \in {"M1", "M2"} : unregister(m)
    \/ \E n \in BOOLEAN : IncrementToken(n)
    \/ \E l \in Listeners : ConnectListener(l)
    \/ \E l \in Listeners : DisconnectListener(l)
    \/ trigger_global_refresh

SpecNotify == Init /\ [][NotifyNext]_vars

\* ------------------------------------------- LiveContextService.merge_ancestor_values
\* my_scope.split("::"): cut at each "::" found scanning from the left
RECURSIVE SplitFrom(_, _, _)
SplitFrom(str, start, i) ==
    IF i + 1 > Len(str) THEN <<SubSeq(str, start, Len(str))>>
    ELSE IF str[i] = ":" /\ str[i + 1] = ":"
         THEN <<SubSeq(str, start, i - 1)>> \o SplitFrom(str, i + 2, i + 2)
         ELSE SplitFrom(str, start, i + 1)

Split(str) == SplitFrom(str, 1, 1)

\* "::".join(parts)
RECURSIVE Join(_)
Join(parts) ==
    IF parts = <<>> THEN <<>>
    ELSE IF Len(parts) = 1 THEN parts[1]
    ELSE parts[1] \o <<":", ":">> \o Join(Tail(parts))

\* ancestors = [""], then "::".join(parts[:i+1]) for each i, when my_scope is not empty
Ancestors(my_scope) ==
    IF my_scope # <<>>
    THEN LET parts == Split(my_scope)
         IN <<<<>>>> \o [i \in 1..Len(parts) |-> Join(SubSeq(parts, 1, i))]
    ELSE <<<<>>>>

\* "for config_type, values in scope_data.items(): result[config_type].update(values)"
MergeScopeData(result, scope_data) ==
    [t \in DOMAIN result \cup DOMAIN scope_data |->
        IF t \in DOMAIN scope_data
        THEN DictUpdate(IF t \in DOMAIN result THEN result[t] ELSE EmptyDict, scope_data[t])
        ELSE result[t]]

\* "for ancestor_scope in ancestors: scope_data = scopes.get(ancestor_scope, {})"
RECURSIVE MergeLoop(_, _, _, _)
MergeLoop(scopes, ancestors, i, result) ==
    IF i > Len(ancestors) THEN result
    ELSE MergeLoop(scopes, ancestors, i + 1,
                   MergeScopeData(result,
                                  IF ancestors[i] \in DOMAIN scopes
                                  THEN scopes[ancestors[i]] ELSE EmptyDict))

Reverse(seq) == [i \in 1..Len(seq) |-> seq[Len(seq) + 1 - i]]

\* (mutant) the ancestors are merged from the most specific to the root
merge_ancestor_values_root_last(scopes, my_scope) ==
    MergeLoop(scopes, Reverse(Ancestors(my_scope)), 1, EmptyDict)

merge_ancestor_values(scopes, my_scope) ==
    MergeLoop(scopes, Ancestors(my_scope), 1, EmptyDict)

\* The scope ids a caller may pass: every string of at most MaxLen characters
ScopeChars == {"A", "B", ":"}

ScopeIds == UNION {[1..n -> ScopeChars] : n \in 0..MaxLen}

\* The scopes dicts a snapshot may hold: each of these scope ids is absent or
\* present with one of its field mappings (the values name the scope they are from).
ScopeData ==
    [k \in {<<>>, <<"A">>, <<"A", ":", ":", "B">>, <<"A", ":", ":", "A">>, <<"B">>,
            <<"A", ":">>, <<"A", ":", ":", "B", ":", ":", "A">>} |->
        CASE k = <<>> -> <<[T |-> [x |-> 1]], [T |-> [x |-> 1, y |-> 10], U |-> [x |-> 100]]>>
          [] k = <<"A">> -> <<[T |-> [x |-> 2, y |-> 1]]>>
          [] k = <<"A", ":", ":", "B">> -> <<[T |-> [x |-> 3]], [U |-> [y |-> 30]]>>
          [] k = <<"A", ":", ":", "A">> -> <<[T |-> [x |-> 4, y |-> 4]]>>
          [] k = <<"B">> -> <<[T |-> [y |-> 5], U |-> [x |-> 5]]>>
          [] k = <<"A", ":">> -> <<[T |-> [x |-> 6, y |-> 6]]>>
          [] OTHER -> <<[T |-> [x |-> 7, y |-> 7]]>>]

\* pick[k] = 0: scope k is absent; pick[k] = i: it holds the i-th mapping
ScopesOf(pick) ==
    [k \in {j \in DOMAIN ScopeData : pick[j] # 0} |-> ScopeData[k][pick[k]]]

ValidScopes ==
    {ScopesOf(pick) : pick \in {c \in [DOMAIN ScopeData -> 0..2] :
                                   \A k \in DOMAIN ScopeData : c[k] <= Len(ScopeData[k])}}

\* A call merge_ancestor_values(scopes, my_scope) is at hand, not yet made.
InitMerge ==
    /\ active_form_managers = {}
    /\ change_callbacks = <<>>
    /\ live_context_token_counter = 0
    /\ live_context_cache = None
    /\ dispatch_cache = None
    /\ snapCount = 0
    /\ lastSnap = None
    /\ since = NoSince
    /\ cycleFirst = None
    /\ log = NoLog
    /\ mg_scopes \in ValidScopes
    /\ mg_my_scope \in ScopeIds
    /\ mg_result = None
    /\ preview_scope_map = EmptyDict
    /\ pending_preview_keys = {}
    /\ preview_update_timer = None
    /\ timers = {}
    /\ timerCount = 0
    /\ burst = None
    /\ full_requested = FALSE
    /\ pcall = NoCall
    /\ scoped_windows = EmptyDict
    /\ windows = <<>>
    /\ active_window = None
    /\ wlog = NoWlog
    /\ window_attrs = <<>>
    /\ nav_timers = <<>>
    /\ nav_log = None
    /\ poll_snapshot = None
    /\ inflight = FALSE
    /\ inflight_generation = None
    /\ last_poll_ts = 0
    /\ generation = 0
    /\ poll_interval_seconds = 1
    /\ clock = Epoch
    /\ workers = <<>>
    /\ pobs = NoPobs
    /\ plog = NoPlog
    /\ editor = NoEditor
    /\ browser = NewBrowser

MergeCall ==
    /\ mg_result = None
    /\ mg_result' = Some(merge_ancestor_values(mg_scopes, mg_my_scope))
    /\ UNCHANGED <<mg_scopes, mg_my_scope>>
    /\ UNCHANGED notMerge

SpecMerge == InitMerge /\ [][MergeCall]_vars

\* --------------------------------------------------- CrossWindowPreviewMixin
\* Scope ids are strings here; an Optional[str] is <<>> (None) or <<string>>.
\* A QTimer object is [id, hook]; timers holds the QTimer objects that are running.
\* The debounce delay of a running timer has elapsed when TimerFire takes it.
ItemKeys == {"k1", "k2"}

ScopeIdInputs ==
    {None, Some(""), Some("s1"), Some("s2"), Some("s3"),
     Some("PIPELINE_CONFIG_CHANGE"), Some("GLOBAL_CONFIG_CHANGE")}

ScopeMaps ==
    {EmptyDict, [s \in {"s1", "s2"} |-> IF s = "s1" THEN "k1" ELSE "k2"],
     [s \in {"", "s1"} |-> IF s = "" THEN "k1" ELSE "k2"]}

\* timer.stop() on the QTimer that _preview_update_timer refers to
StopTimer(running, ref) ==
    IF ref = None THEN running ELSE {t \in running : t.id # ref[1]}

HookOf(full_refresh) ==
    IF full_refresh THEN "_handle_full_preview_refresh" ELSE "_process_pending_preview_updates"

\* (mutant) the previous timer is left running
schedule_preview_update_without_stop(full_refresh) ==
    /\ timerCount < MaxTimers
    /\ timerCount' = timerCount + 1
    /\ preview_update_timer' = Some(timerCount + 1)
    /\ timers' = timers \cup {[id |-> timerCount + 1, hook |-> HookOf(full_refresh)]}

schedule_preview_update(full_refresh) ==
    /\ timerCount < MaxTimers
    /\ timerCount' = timerCount + 1
    /\ preview_update_timer' = Some(timerCount + 1)
    /\ timers' = StopTimer(timers, preview_update_timer)
                    \cup {[id |-> timerCount + 1, hook |-> HookOf(full_refresh)]}

\* (mutant) a scope id that is not in the map is treated like an unknown scope
PreviewBranch_unmapped_is_full(scope_id) ==
    IF scope_id \in {Some("PIPELINE_CONFIG_CHANGE"), Some("GLOBAL_CONFIG_CHANGE")} THEN "all"
    ELSE IF scope_id # None /\ scope_id[1] # "" /\ scope_id[1] \in DOMAIN preview_scope_map
         THEN "one"
    ELSE "full"

\* the branch that "if scope_id in (...) / elif / elif / else" takes
PreviewBranch(scope_id) ==
    IF scope_id \in {Some("PIPELINE_CONFIG_CHANGE"), Some("GLOBAL_CONFIG_CHANGE")} THEN "all"
    ELSE IF scope_id # None /\ scope_id[1] # "" /\ scope_id[1] \in DOMAIN preview_scope_map
         THEN "one"
    ELSE IF scope_id = None THEN "full"
    ELSE "ignore"

\* (mutant) a sentinel adds one of the mapped item keys only
AffectedKeys_one_of_all(scope_id) ==
    CASE PreviewBranch(scope_id) = "all" ->
            IF DOMAIN preview_scope_map = {} THEN {}
            ELSE {preview_scope_map[CHOOSE s \in DOMAIN preview_scope_map : TRUE]}
      [] PreviewBranch(scope_id) = "one" -> {preview_scope_map[scope_id[1]]}
      [] OTHER -> {}

\* the item keys the branch adds to _pending_preview_keys
AffectedKeys(scope_id) ==
    CASE PreviewBranch(scope_id) = "all" ->
            {preview_scope_map[s] : s \in DOMAIN preview_scope_map}
      [] PreviewBranch(scope_id) = "one" -> {preview_scope_map[scope_id[1]]}
      [] OTHER -> {}

\* observation: the calls and hook invocations of the current burst of changes
NothingPending == pending_preview_keys = {}

BurstAfterChange(keys) ==
    IF burst # None /\ burst[1].incremental + burst[1].full = 0
    THEN Some([burst[1] EXCEPT !.calls = @ + 1, !.keys = @ \cup keys])
    ELSE IF NothingPending
         THEN Some([calls |-> 1, keys |-> keys, incremental |-> 0, full |-> 0, at |-> {}])
         ELSE None

\* what handle_cross_window_preview_change does to the mixin's attributes from
\* the extracted scope id on
RoutePreviewCore(scope_id) ==
    CASE PreviewBranch(scope_id) \in {"all", "one"} ->
            /\ pending_preview_keys' = pending_preview_keys \cup AffectedKeys(scope_id)
            /\ schedule_preview_update(FALSE)
            /\ UNCHANGED preview_scope_map
      [] PreviewBranch(scope_id) = "full" ->
            /\ schedule_preview_update(TRUE)
            /\ UNCHANGED <<preview_scope_map, pending_preview_keys>>
      [] OTHER -> UNCHANGED <<preview_scope_map, pending_preview_keys, preview_update_timer,
                              timers, timerCount>>

\* the same with the observations of the call
RoutePreview(scope_id, isChange) ==
    /\ RoutePreviewCore(scope_id)
    /\ CASE PreviewBranch(scope_id) \in {"all", "one"} ->
               /\ burst' = IF isChange THEN BurstAfterChange(AffectedKeys(scope_id)) ELSE None
               /\ UNCHANGED full_requested
         [] PreviewBranch(scope_id) = "full" ->
               /\ burst' = None
               /\ full_requested' = TRUE
         [] OTHER -> UNCHANGED <<burst, full_requested>>

\* process: what _should_process_preview_field returns; scope_id: what
\* _extract_scope_id_for_preview returns
handle_cross_window_preview_change(process, scope_id) ==
    /\ IF ~process THEN UNCHANGED previewVars
       ELSE RoutePreview(scope_id, TRUE)
    /\ UNCHANGED notPreview

\* (mutant) a refresh event always asks for the full refresh
handle_cross_window_preview_refresh_always_full(scope_id) ==
    /\ schedule_preview_update(TRUE)
    /\ burst' = None
    /\ full_requested' = TRUE
    /\ UNCHANGED <<preview_scope_map, pending_preview_keys>>
    /\ UNCHANGED notPreview

\* handle_cross_window_preview_refresh has its own copy of the routing
handle_cross_window_preview_refresh(scope_id) ==
    /\ IF scope_id \in {Some("PIPELINE_CONFIG_CHANGE"), Some("GLOBAL_CONFIG_CHANGE")}
       THEN /\ pending_preview_keys' =
                  pending_preview_keys \cup {preview_scope_map[s] : s \in DOMAIN preview_scope_map}
            /\ schedule_preview_update(FALSE)
            /\ burst' = None
            /\ UNCHANGED <<preview_scope_map, full_requested>>
       ELSE IF scope_id # None /\ scope_id[1] # "" /\ scope_id[1] \in DOMAIN preview_scope_map
       THEN /\ pending_preview_keys' = pending_preview_keys \cup {preview_scope_map[scope_id[1]]}
            /\ schedule_preview_update(FALSE)
            /\ burst' = None
            /\ UNCHANGED <<preview_scope_map, full_requested>>
       ELSE IF scope_id = None
       THEN /\ schedule_preview_update(TRUE)
            /\ burst' = None
            /\ full_requested' = TRUE
            /\ UNCHANGED <<preview_scope_map, pending_preview_keys>>
       ELSE UNCHANGED previewVars
    /\ UNCHANGED notPreview

set_preview_scope_mapping(scope_map) ==
    /\ preview_scope_map' = scope_map
    /\ UNCHANGED <<pending_preview_keys, preview_update_timer, timers, timerCount, burst,
                   full_requested>>
    /\ UNCHANGED notPreview

register_preview_scope(scope_id, item_key) ==
    /\ preview_scope_map' = IF scope_id # None /\ scope_id[1] # ""
                            THEN DictSet(preview_scope_map, scope_id[1], item_key)
                            ELSE preview_scope_map
    /\ UNCHANGED <<pending_preview_keys, preview_update_timer, timers, timerCount, burst,
                   full_requested>>
    /\ UNCHANGED notPreview

unregister_preview_scope(scope_id) ==
    /\ preview_scope_map' =
          IF scope_id # None /\ scope_id[1] # "" /\ scope_id[1] \in DOMAIN preview_scope_map
          THEN [s \in DOMAIN preview_scope_map \ {scope_id[1]} |-> preview_scope_map[s]]
          ELSE preview_scope_map
    /\ UNCHANGED <<pending_preview_keys, preview_update_timer, timers, timerCount, burst,
                   full_requested>>
    /\ UNCHANGED notPreview

\* (mutant) the incremental-refresh hook leaves the keys pending
process_pending_preview_updates_keeping ==
    /\ pending_preview_keys' = pending_preview_keys
    /\ burst' = IF burst = None THEN None
                ELSE Some([burst[1] EXCEPT !.incremental = @ + 1, !.at = pending_preview_keys])

\* the incremental-refresh hook: applies the pending keys, then clears the set
process_pending_preview_updates ==
    /\ pending_preview_keys' = {}
    /\ burst' = IF burst = None THEN None
                ELSE Some([burst[1] EXCEPT !.incremental = @ + 1, !.at = pending_preview_keys])

\* the full-refresh hook: refreshes every item; nothing stays pending
handle_full_preview_refresh ==
    /\ pending_preview_keys' = {}
    /\ burst' = IF burst = None THEN None ELSE Some([burst[1] EXCEPT !.full = @ + 1])

\* the timeout signal of a running single-shot QTimer calls the connected hook
TimerFire(timer) ==
    /\ timer \in timers
    /\ timers' = timers \ {timer}
    /\ IF timer.hook = "_process_pending_preview_updates"
       THEN process_pending_preview_updates
       ELSE handle_full_preview_refresh
    /\ full_requested' = FALSE
    /\ UNCHANGED <<preview_scope_map, preview_update_timer, timerCount>>
    /\ UNCHANGED notPreview

PreviewNext ==
    \/ \E process \in BOOLEAN, scope_id \in ScopeIdInputs :
          handle_cross_window_preview_change(process, scope_id) /\ UNCHANGED pcall
    \/ \E scope_id \in ScopeIdInputs :
          handle_cross_window_preview_refresh(scope_id) /\ UNCHANGED pcall
    \/ \E scope_map \in ScopeMaps :
          set_preview_scope_mapping(scope_map) /\ UNCHANGED pcall
    \/ \E scope_id \in ScopeIdInputs, item_key \in ItemKeys :
          register_preview_scope(scope_id, item_key) /\ UNCHANGED pcall
    \/ \E scope_id \in ScopeIdInputs :
          unregister_preview_scope(scope_id) /\ UNCHANGED pcall
    \/ \E timer \in timers : TimerFire(timer) /\ UNCHANGED pcall

SpecPreview == Init /\ [][PreviewNext]_vars

\* ---- the same mixin with each handler call recorded in pcall
RecordCall(op, process, scope_id) ==
    pcall' = [tick |-> 1 - pcall.tick, op |-> op, process |-> process, scope_id |-> scope_id]

RouteNext ==
    \/ \E process \in BOOLEAN, scope_id \in ScopeIdInputs :
          /\ handle_cross_window_preview_change(process, scope_id)
          /\ RecordCall("change", process, scope_id)
    \/ \E scope_id \in ScopeIdInputs :
          /\ handle_cross_window_preview_refresh(scope_id)
          /\ RecordCall("refresh", TRUE, scope_id)
    \/ \E scope_map \in ScopeMaps :
          set_preview_scope_mapping(scope_map) /\ UNCHANGED pcall
    \/ \E timer \in timers : TimerFire(timer) /\ UNCHANGED pcall

SpecRoute == Init /\ [][RouteNext]_vars

\* ------------------------------------------------------------- WindowManager
\* A window is its index in windows.  A record of windows holds what Qt knows
\* of the widget: alive (the C++ object exists), visible, minimized; wrap is
\* <<scope id>> when show_or_focus replaced closeEvent by close_wrapper, and
\* scope observes the scope id the window was created or registered for.
Scopes == {"s1", "s2"}

WindowIds == 1..Len(windows)

NewWindow(scope_id) ==
    [alive |-> TRUE, visible |-> FALSE, minimized |-> FALSE, wrap |-> None, scope |-> scope_id]

\* a widget whose C++ object is deleted: every method raises RuntimeError
DeadWindow ==
    [alive |-> FALSE, visible |-> FALSE, minimized |-> FALSE, wrap |-> None, scope |-> "-"]

\* The attributes of a window that deferred navigation looks at:
\*   form_manager  hasattr(window, 'form_manager')
\*   widgets       form_manager.widgets: "missing" (no attribute), "empty", "ready"
\*   nested        the paths of the nested managers that exist below form_manager
\*   callbacks     form_manager._on_build_complete_callbacks: <<>> (None or no
\*                 attribute) or <<list of retry_with_callback closures>>
\*   retry_count   window._nav_retry_count (0 when never set)
\*   item_hook, field_hook   hasattr(window, 'select_and_scroll_to_item' / '..._field')
\*   item_list     "none" (no item_list), "no_map" (no _scope_to_list_item), "empty", "ready"
\* a window without form manager, list or navigation hooks
PlainAttrs ==
    [form_manager |-> FALSE, widgets |-> "missing", nested |-> {}, callbacks |-> None,
     retry_count |-> 0, item_hook |-> FALSE, field_hook |-> FALSE, item_list |-> "none"]

\* del d[k]
DictDel(d, k) == [j \in DOMAIN d \ {k} |-> d[j]]

WLog(op, scope_id, window, factory, raised, activated, original) ==
    [op |-> op, scope |-> scope_id, window |-> window, factory |-> factory,
     raised |-> raised, activated |-> activated, original |-> original, stale |-> FALSE]

\* An item id is <<>> (None) or <<string>>; a field path is <<>> (None) or
\* <<sequence of its dot-separated segments>>, the empty string being << <<>> >>.
TruthyItem(item_id) == item_id # None /\ item_id[1] # ""

TruthyPath(field_path) == field_path # None /\ field_path[1] # <<>>

\* the closures waiting in the build-complete lists of all windows
WaitingCallbacks ==
    LET RECURSIVE Count(_)
        Count(w) == IF w = 0 THEN 0
                    ELSE Count(w - 1) + (IF window_attrs[w].callbacks = None THEN 0
                                         ELSE Len(window_attrs[w].callbacks[1]))
    IN Count(Len(window_attrs))

\* _deferred_navigate: QTimer.singleShot(0, _check_and_navigate).  A request with
\* neither item id nor field path does nothing when it fires and is not kept.
\* retries counts the times retry_with_callback has run for the request.
deferred_navigate(window, item_id, field_path) ==
    IF ~TruthyItem(item_id) /\ ~TruthyPath(field_path)
    THEN UNCHANGED nav_timers
    ELSE /\ Len(nav_timers) + WaitingCallbacks < MaxPending
         /\ nav_timers' = Append(nav_timers,
                                 [window |-> window, item_id |-> item_id,
                                  field_path |-> field_path, retries |-> 0])

\* "if item_id or field_path:" of show_or_focus
NavigateIfRequested(window, item_id, field_path) ==
    IF TruthyItem(item_id) \/ TruthyPath(field_path)
    THEN deferred_navigate(window, item_id, field_path)
    ELSE UNCHANGED nav_timers

\* the part of show_or_focus that brings a window that is alive to the front
FocusExisting(scope_id, w, item_id, field_path) ==
    /\ windows' = [windows EXCEPT ![w].visible = TRUE, ![w].minimized = FALSE]
    /\ active_window' = Some(w)
    /\ NavigateIfRequested(w, item_id, field_path)
    /\ wlog' = WLog("show_or_focus", scope_id, w, FALSE, TRUE, TRUE, FALSE)
    /\ UNCHANGED <<scoped_windows, window_attrs>>

\* the part of show_or_focus from "window = window_factory()" on; attrs is what
\* the factory builds
CreateWindow(scope_id, attrs, item_id, field_path) ==
    /\ Len(windows) < MaxWindows
    /\ LET w == Len(windows) + 1
       IN /\ windows' = Append(windows, [NewWindow(scope_id) EXCEPT
                                           !.wrap = Some(scope_id), !.visible = TRUE])
          /\ window_attrs' = Append(window_attrs, attrs)
          /\ scoped_windows' = DictSet(scoped_windows, scope_id, w)
          /\ NavigateIfRequested(w, item_id, field_path)
          /\ wlog' = [WLog("show_or_focus", scope_id, w, TRUE, FALSE, FALSE, FALSE)
                          EXCEPT !.stale = scope_id \in DOMAIN scoped_windows]
    /\ UNCHANGED active_window

\* (mutant) the existing window is not looked up
show_or_focus_always_creating(scope_id, attrs, item_id, field_path) ==
    /\ CreateWindow(scope_id, attrs, item_id, field_path)
    /\ UNCHANGED nav_log
    /\ UNCHANGED notWindow

\* (mutant) a stale entry is taken for a window
show_or_focus_trusting_entry(scope_id, attrs, item_id, field_path) ==
    /\ IF scope_id \in DOMAIN scoped_windows
       THEN IF windows[scoped_windows[scope_id]].alive
            THEN FocusExisting(scope_id, scoped_windows[scope_id], item_id, field_path)
            ELSE /\ wlog' = WLog("show_or_focus", scope_id, scoped_windows[scope_id],
                                 FALSE, FALSE, FALSE, FALSE)
                 /\ UNCHANGED <<scoped_windows, windows, active_window, window_attrs,
                                nav_timers>>
       ELSE CreateWindow(scope_id, attrs, item_id, field_path)
    /\ UNCHANGED nav_log
    /\ UNCHANGED notWindow

show_or_focus(scope_id, attrs, item_id, field_path) ==
    /\ IF scope_id \in DOMAIN scoped_windows /\ windows[scoped_windows[scope_id]].alive
       THEN FocusExisting(scope_id, scoped_windows[scope_id], item_id, field_path)
       ELSE CreateWindow(scope_id, attrs, item_id, field_path)
    /\ UNCHANGED nav_log
    /\ UNCHANGED notWindow

\* (mutant) the window is raised and activated also when it is the active window
focus_and_navigate_always_raising(scope_id, item_id, field_path) ==
    /\ IF scope_id \notin DOMAIN scoped_windows
       THEN /\ wlog' = WLog("focus_and_navigate", scope_id, 0, FALSE, FALSE, FALSE, FALSE)
            /\ UNCHANGED <<scoped_windows, windows, active_window, nav_timers>>
       ELSE LET w == scoped_windows[scope_id]
            IN IF windows[w].alive
               THEN /\ windows' = [windows EXCEPT ![w].visible = TRUE, ![w].minimized = FALSE]
                    /\ active_window' = Some(w)
                    /\ deferred_navigate(w, item_id, field_path)
                    /\ wlog' = WLog("focus_and_navigate", scope_id, w, FALSE, TRUE, TRUE, FALSE)
                    /\ UNCHANGED scoped_windows
               ELSE /\ scoped_windows' = DictDel(scoped_windows, scope_id)
                    /\ wlog' = WLog("focus_and_navigate", scope_id, 0, FALSE, FALSE, FALSE,
                                    FALSE)
                    /\ UNCHANGED <<windows, active_window, nav_timers>>
    /\ UNCHANGED <<window_attrs, nav_log>>
    /\ UNCHANGED notWindow

\* wlog.window is the window that was focused, 0 when the call returned False
focus_and_navigate(scope_id, item_id, field_path) ==
    /\ IF scope_id \notin DOMAIN scoped_windows
       THEN /\ wlog' = WLog("focus_and_navigate", scope_id, 0, FALSE, FALSE, FALSE, FALSE)
            /\ UNCHANGED <<scoped_windows, windows, active_window, nav_timers>>
       ELSE LET w == scoped_windows[scope_id]
                is_already_active == active_window = Some(w)
            IN IF windows[w].alive
               THEN /\ windows' = [windows EXCEPT ![w].visible = TRUE, ![w].minimized = FALSE]
                    /\ active_window' = IF is_already_active THEN active_window ELSE Some(w)
                    /\ deferred_navigate(w, item_id, field_path)
                    /\ wlog' = WLog("focus_and_navigate", scope_id, w, FALSE,
                                    ~is_already_active, ~is_already_active, FALSE)
                    /\ UNCHANGED scoped_windows
               ELSE /\ scoped_windows' = DictDel(scoped_windows, scope_id)
                    /\ wlog' = WLog("focus_and_navigate", scope_id, 0, FALSE, FALSE, FALSE,
                                    FALSE)
                    /\ UNCHANGED <<windows, active_window, nav_timers>>
    /\ UNCHANGED <<window_attrs, nav_log>>
    /\ UNCHANGED notWindow

\* register(scope_id, window), called by a window that manages its own show()
\* with its own scope key: window is a widget the caller has just constructed
\* (window = Len(windows) + 1, built with attrs) or one that registers again
register_window(scope_id, window, attrs) ==
    /\ IF window = Len(windows) + 1
       THEN /\ Len(windows) < MaxWindows
            /\ windows' = Append(windows, NewWindow(scope_id))
            /\ window_attrs' = Append(window_attrs, attrs)
       ELSE /\ window \in WindowIds
            /\ windows[window].alive
            /\ windows[window].wrap = None
            /\ windows[window].scope = scope_id
            /\ UNCHANGED <<windows, window_attrs>>
    /\ scoped_windows' = DictSet(scoped_windows, scope_id, window)
    /\ wlog' = WLog("register", scope_id, window, FALSE, FALSE, FALSE, FALSE)
    /\ UNCHANGED <<active_window, nav_timers, nav_log>>
    /\ UNCHANGED notWindow

unregister_window(scope_id) ==
    /\ scoped_windows' = IF scope_id \in DOMAIN scoped_windows
                         THEN DictDel(scoped_windows, scope_id) ELSE scoped_windows
    /\ wlog' = WLog("unregister", scope_id, 0, FALSE, FALSE, FALSE, FALSE)
    /\ UNCHANGED <<windows, active_window, navVars>>
    /\ UNCHANGED notWindow

\* is_open: a hidden or deleted window is purged; wlog.window is the window for True
is_open(scope_id) ==
    /\ IF scope_id \notin DOMAIN scoped_windows
       THEN /\ wlog' = WLog("is_open", scope_id, 0, FALSE, FALSE, FALSE, FALSE)
            /\ UNCHANGED scoped_windows
       ELSE LET w == scoped_windows[scope_id]
            IN IF windows[w].alive /\ windows[w].visible
               THEN /\ wlog' = WLog("is_open", scope_id, w, FALSE, FALSE, FALSE, FALSE)
                    /\ UNCHANGED scoped_windows
               ELSE /\ scoped_windows' = DictDel(scoped_windows, scope_id)
                    /\ wlog' = WLog("is_open", scope_id, 0, FALSE, FALSE, FALSE, FALSE)
    /\ UNCHANGED <<windows, active_window, navVars>>
    /\ UNCHANGED notWindow

\* the registry after window w has handled a close event: close_wrapper, when
\* installed, deletes the entry of the scope it was made for
AfterCloseWrapper(w) ==
    IF windows[w].wrap # None /\ windows[w].wrap[1] \in DOMAIN scoped_windows
    THEN DictDel(scoped_windows, windows[w].wrap[1])
    ELSE scoped_windows

\* (mutant) close_wrapper deletes the entry only when it refers to its window
AcceptClose_own_entry_only(w, op, scope_id) ==
    /\ scoped_windows' = IF /\ windows[w].wrap # None
                            /\ windows[w].wrap[1] \in DOMAIN scoped_windows
                            /\ scoped_windows[windows[w].wrap[1]] = w
                         THEN DictDel(scoped_windows, windows[w].wrap[1])
                         ELSE scoped_windows
    /\ windows' = [windows EXCEPT ![w].visible = FALSE, ![w].minimized = FALSE]
    /\ active_window' = IF active_window = Some(w) THEN None ELSE active_window
    /\ wlog' = WLog(op, scope_id, w, FALSE, FALSE, FALSE, TRUE)

\* (mutant) close_wrapper does not delete the entry
AcceptClose_keeping_entry(w, op, scope_id) ==
    /\ UNCHANGED scoped_windows
    /\ windows' = [windows EXCEPT ![w].visible = FALSE, ![w].minimized = FALSE]
    /\ active_window' = IF active_window = Some(w) THEN None ELSE active_window
    /\ wlog' = WLog(op, scope_id, w, FALSE, FALSE, FALSE, TRUE)

\* window.closeEvent(event) runs (the wrapper, then the original handler, which
\* accepts the event), then Qt hides the window
AcceptClose(w, op, scope_id) ==
    /\ scoped_windows' = AfterCloseWrapper(w)
    /\ windows' = [windows EXCEPT ![w].visible = FALSE, ![w].minimized = FALSE]
    /\ active_window' = IF active_window = Some(w) THEN None ELSE active_window
    /\ wlog' = WLog(op, scope_id, w, FALSE, FALSE, FALSE, TRUE)

close_window(scope_id) ==
    /\ IF scope_id \notin DOMAIN scoped_windows
       THEN /\ wlog' = WLog("close_window", scope_id, 0, FALSE, FALSE, FALSE, FALSE)
            /\ UNCHANGED <<scoped_windows, windows, active_window>>
       ELSE LET w == scoped_windows[scope_id]
            IN IF windows[w].alive
               THEN AcceptClose(w, "close_window", scope_id)
               ELSE /\ scoped_windows' = DictDel(scoped_windows, scope_id)
                    /\ wlog' = WLog("close_window", scope_id, 0, FALSE, FALSE, FALSE, FALSE)
                    /\ UNCHANGED <<windows, active_window>>
    /\ UNCHANGED navVars
    /\ UNCHANGED notWindow

\* get_open_scopes: the entries of deleted windows are removed
get_open_scopes ==
    /\ scoped_windows' = [sc \in {k \in DOMAIN scoped_windows :
                                     windows[scoped_windows[k]].alive} |-> scoped_windows[sc]]
    /\ wlog' = WLog("get_open_scopes", "-", 0, FALSE, FALSE, FALSE, FALSE)
    /\ UNCHANGED <<windows, active_window, navVars>>
    /\ UNCHANGED notWindow

\* ---- what happens to windows outside WindowManager
\* the owner of a window it registered itself calls show()
WindowShow(w) ==
    /\ windows[w].alive /\ windows[w].wrap = None /\ ~windows[w].visible
    /\ windows' = [windows EXCEPT ![w].visible = TRUE]
    /\ wlog' = WLog("show", "-", 0, FALSE, FALSE, FALSE, FALSE)
    /\ UNCHANGED <<scoped_windows, active_window, navVars>>
    /\ UNCHANGED notWindow

WindowHide(w) ==
    /\ windows[w].alive /\ windows[w].visible
    /\ windows' = [windows EXCEPT ![w].visible = FALSE, ![w].minimized = FALSE]
    /\ active_window' = IF active_window = Some(w) THEN None ELSE active_window
    /\ wlog' = WLog("hide", "-", 0, FALSE, FALSE, FALSE, FALSE)
    /\ UNCHANGED <<scoped_windows, navVars>>
    /\ UNCHANGED notWindow

WindowMinimize(w) ==
    /\ windows[w].alive /\ windows[w].visible /\ ~windows[w].minimized
    /\ windows' = [windows EXCEPT ![w].minimized = TRUE]
    /\ active_window' = IF active_window = Some(w) THEN None ELSE active_window
    /\ wlog' = WLog("minimize", "-", 0, FALSE, FALSE, FALSE, FALSE)
    /\ UNCHANGED <<scoped_windows, navVars>>
    /\ UNCHANGED notWindow

\* the user, or the window system, makes a window the active window
WindowActivate(w) ==
    /\ windows[w].alive /\ windows[w].visible /\ ~windows[w].minimized
    /\ active_window # Some(w)
    /\ active_window' = Some(w)
    /\ wlog' = WLog("activate", "-", 0, FALSE, FALSE, FALSE, FALSE)
    /\ UNCHANGED <<scoped_windows, windows, navVars>>
    /\ UNCHANGED notWindow

\* the window receives a close event (close button, or close() by its owner)
CloseEvent(w) ==
    /\ windows[w].alive
    /\ AcceptClose(w, "close", "-")
    /\ UNCHANGED navVars
    /\ UNCHANGED notWindow

\* the C++ object is deleted without a close event (deleteLater, parent deleted)
WindowDestroy(w) ==
    /\ windows[w].alive
    /\ windows' = [windows EXCEPT ![w] = DeadWindow]
    /\ active_window' = IF active_window = Some(w) THEN None ELSE active_window
    /\ wlog' = WLog("destroy", "-", 0, FALSE, FALSE, FALSE, FALSE)
    /\ UNCHANGED <<scoped_windows, navVars>>
    /\ UNCHANGED notWindow

WindowsNext ==
    \/ \E scope_id \in Scopes : show_or_focus(scope_id, PlainAttrs, None, None)
    \/ \E scope_id \in Scopes : focus_and_navigate(scope_id, None, None)
    \/ \E scope_id \in Scopes, window \in 1..(Len(windows) + 1) :
          register_window(scope_id, window, PlainAttrs)
    \/ \E scope_id \in Scopes : unregister_window(scope_id)
    \/ \E scope_id \in Scopes : is_open(scope_id)
    \/ \E scope_id \in Scopes : close_window(scope_id)
    \/ get_open_scopes
    \/ \E w \in WindowIds : WindowShow(w)
    \/ \E w \in WindowIds : WindowHide(w)
    \/ \E w \in WindowIds : WindowMinimize(w)
    \/ \E w \in WindowIds : WindowActivate(w)
    \/ \E w \in WindowIds : CloseEvent(w)
    \/ \E w \in WindowIds : WindowDestroy(w)

SpecWindows == Init /\ [][WindowsNext]_vars

\* ------------------------------------------- WindowManager._deferred_navigate
\* _check_nested_manager_exists: every segment but the last names a nested manager
check_nested_manager_exists(attrs, path) ==
    IF Len(path) <= 1 THEN TRUE
    ELSE \A i \in 1..(Len(path) - 1) : SubSeq(path, 1, i) \in attrs.nested

\* needs_wait of _check_and_navigate
NeedsWait(attrs, item_id, field_path) ==
    \/ /\ TruthyPath(field_path) /\ attrs.form_manager
       /\ IF attrs.widgets = "empty" THEN TRUE
          ELSE Len(field_path[1]) > 1 /\ ~check_nested_manager_exists(attrs, field_path[1])
    \/ /\ TruthyItem(item_id) /\ attrs.item_list = "empty"

\* what the last _check_and_navigate did, and the form manager it looked at
NavLog(req, needs_wait, registered, gave_up, item_called, field_called) ==
    Some([window |-> req.window, field_path |-> req.field_path, needs_wait |-> needs_wait,
          registered |-> registered, gave_up |-> gave_up,
          item_called |-> item_called, field_called |-> field_called,
          retries |-> req.retries,
          form_manager |-> window_attrs[req.window].form_manager,
          widgets |-> window_attrs[req.window].widgets,
          nested_ok |-> IF TruthyPath(req.field_path)
                        THEN check_nested_manager_exists(window_attrs[req.window],
                                                         req.field_path[1])
                        ELSE TRUE])

\* (mutant) a navigation starts the retry count of the window afresh
DoNavigation_resetting_count(req, needs_wait, gave_up) ==
    /\ nav_log' = NavLog(req, needs_wait, FALSE, gave_up,
                         TruthyItem(req.item_id) /\ window_attrs[req.window].item_hook,
                         TruthyPath(req.field_path) /\ window_attrs[req.window].field_hook)
    /\ window_attrs' = [window_attrs EXCEPT ![req.window].retry_count = 0]

\* _do_navigation on a window that is alive: the hooks that exist are invoked
DoNavigation(req, needs_wait, gave_up) ==
    /\ nav_log' = NavLog(req, needs_wait, FALSE, gave_up,
                         TruthyItem(req.item_id) /\ window_attrs[req.window].item_hook,
                         TruthyPath(req.field_path) /\ window_attrs[req.window].field_hook)
    /\ UNCHANGED window_attrs

\* (mutant) the retry bound admits one more retry
CheckAndNavigate_one_more_retry(req) ==
    LET attrs == window_attrs[req.window]
        needs_wait == NeedsWait(attrs, req.item_id, req.field_path)
    IN IF ~windows[req.window].alive
       THEN UNCHANGED <<window_attrs, nav_log>>
       ELSE IF needs_wait /\ attrs.form_manager /\ attrs.callbacks # None
            THEN IF attrs.retry_count <= MaxRetries
                 THEN /\ window_attrs' = [window_attrs EXCEPT ![req.window].callbacks =
                                             Some(Append(attrs.callbacks[1], req))]
                      /\ nav_log' = NavLog(req, TRUE, TRUE, FALSE, FALSE, FALSE)
                 ELSE DoNavigation(req, TRUE, TRUE)
            ELSE DoNavigation(req, needs_wait, FALSE)

\* _check_and_navigate for one request
CheckAndNavigate(req) ==
    LET attrs == window_attrs[req.window]
        needs_wait == NeedsWait(attrs, req.item_id, req.field_path)
    IN IF ~windows[req.window].alive
       THEN UNCHANGED <<window_attrs, nav_log>>
       ELSE IF needs_wait /\ attrs.form_manager /\ attrs.callbacks # None
            THEN IF attrs.retry_count < MaxRetries
                 THEN /\ window_attrs' = [window_attrs EXCEPT ![req.window].callbacks =
                                             Some(Append(attrs.callbacks[1], req))]
                      /\ nav_log' = NavLog(req, TRUE, TRUE, FALSE, FALSE, FALSE)
                 ELSE DoNavigation(req, TRUE, TRUE)
            ELSE DoNavigation(req, needs_wait, FALSE)

\* a pending single-shot timer fires and runs its _check_and_navigate
NavTimerFire(i) ==
    /\ i \in 1..Len(nav_timers)
    /\ nav_timers' = [j \in 1..(Len(nav_timers) - 1) |->
                         IF j < i THEN nav_timers[j] ELSE nav_timers[j + 1]]
    /\ CheckAndNavigate(nav_timers[i])
    /\ UNCHANGED windowVars
    /\ UNCHANGED notWindow

\* the form manager of window w goes on building: its widgets, nested managers
\* and list items are as given from now on
BuildProgress(w, widgets, nested, item_list) ==
    /\ windows[w].alive
    /\ window_attrs[w].form_manager \/ window_attrs[w].item_list # "none"
    /\ window_attrs[w].widgets = "missing" => widgets = "missing"
    /\ window_attrs[w].item_list \in {"none", "no_map"} => item_list = window_attrs[w].item_list
    /\ window_attrs[w].item_list \in {"empty", "ready"} => item_list \in {"empty", "ready"}
    /\ window_attrs[w].widgets # "missing" => widgets # "missing"
    /\ window_attrs[w].form_manager \/ (widgets = "missing" /\ nested = {})
    /\ window_attrs' = [window_attrs EXCEPT ![w].widgets = widgets, ![w].nested = nested,
                                            ![w].item_list = item_list]
    /\ window_attrs' # window_attrs
    /\ UNCHANGED <<nav_timers, nav_log, windowVars>>
    /\ UNCHANGED notWindow

\* the form manager of window w has finished a build: it calls every callback of
\* _on_build_complete_callbacks once and empties the list.  retry_with_callback
\* adds one to window._nav_retry_count and starts a timer for _check_and_navigate.
BuildComplete(w) ==
    /\ windows[w].alive
    /\ window_attrs[w].callbacks # None
    /\ window_attrs[w].callbacks[1] # <<>>
    /\ nav_timers' = nav_timers \o [i \in 1..Len(window_attrs[w].callbacks[1]) |->
                                       [window_attrs[w].callbacks[1][i] EXCEPT !.retries = @ + 1]]
    /\ window_attrs' = [window_attrs EXCEPT
                           ![w].retry_count = @ + Len(window_attrs[w].callbacks[1]),
                           ![w].callbacks = Some(<<>>)]
    /\ UNCHANGED <<nav_log, windowVars>>
    /\ UNCHANGED notWindow

\* the windows the factories build
FormAttrs ==
    [form_manager |-> TRUE, widgets |-> "empty", nested |-> {}, callbacks |-> Some(<<>>),
     retry_count |-> 0, item_hook |-> FALSE, field_hook |-> TRUE, item_list |-> "none"]

AttrChoices ==
    {FormAttrs,
     [FormAttrs EXCEPT !.callbacks = None],
     [FormAttrs EXCEPT !.item_hook = TRUE, !.item_list = "empty"],
     [PlainAttrs EXCEPT !.item_hook = TRUE, !.item_list = "empty"]}

ItemIds == {None, Some("i")}

FieldPaths == {None, Some(<<"f">>), Some(<<"n", "f">>)}

NestedChoices == {{}, {<<"n">>}}

NavigateNext ==
    \/ \E attrs \in AttrChoices, item_id \in ItemIds, field_path \in FieldPaths :
          show_or_focus("s1", attrs, item_id, field_path)
    \/ \E item_id \in ItemIds, field_path \in FieldPaths :
          focus_and_navigate("s1", item_id, field_path)
    \/ \E i \in 1..Len(nav_timers) : NavTimerFire(i)
    \/ \E w \in WindowIds, widgets \in {"missing", "empty", "ready"},
          nested \in NestedChoices, item_list \in {"none", "no_map", "empty", "ready"} :
          BuildProgress(w, widgets, nested, item_list)
    \/ \E w \in WindowIds : BuildComplete(w)

SpecNavigate == Init /\ [][NavigateNext]_vars

\* ------------------------------------------------------ IntervalSnapshotPoller
\* the values a snapshot can have
SnapshotValues == {"a", "b"}

\* what fetch_snapshot can return: None, or a new snapshot object
FetchValues == {None} \cup {[val |-> v, copy |-> FALSE] : v \in SnapshotValues}

\* policy.clone_snapshot: another object with the same value
clone_snapshot(x) == IF x = None THEN None ELSE [x EXCEPT !.copy = TRUE]

\* "snapshot != self._snapshot": snapshots are compared by value
SnapNotEqual(x, y) ==
    IF x = None \/ y = None THEN x # y ELSE x.val # y.val

PLog(op, started, ret, w) == [op |-> op, started |-> started, ret |-> ret, w |-> w]

\* the thread tick() starts: _poll_worker(generation) about to fetch
NewWorker(g) ==
    [NoWorker EXCEPT !.generation = g, !.pc = "fetch", !.recovery = pobs.reset_inflight]

\* (mutant) no in-flight gate
tick_without_inflight_gate ==
    /\ Len(workers) < MaxWorkers
    /\ IF clock - last_poll_ts < poll_interval_seconds
       THEN /\ plog' = PLog("tick", FALSE, None, NoWorker)
            /\ UNCHANGED <<poll_snapshot, inflight, inflight_generation, last_poll_ts,
                           generation, workers, pobs>>
       ELSE /\ inflight' = TRUE
            /\ last_poll_ts' = clock
            /\ inflight_generation' = Some(generation)
            /\ workers' = Append(workers, NewWorker(generation))
            /\ pobs' = [pobs EXCEPT !.last_start = Some(clock), !.reset_since = FALSE,
                                    !.reset_inflight = FALSE]
            /\ plog' = PLog("tick", TRUE, None, NoWorker)
            /\ UNCHANGED <<poll_snapshot, generation>>
    /\ UNCHANGED <<poll_interval_seconds, clock>>
    /\ UNCHANGED notPoll

\* (mutant) no interval gate
tick_without_interval_gate ==
    /\ Len(workers) < MaxWorkers
    /\ IF inflight
       THEN /\ plog' = PLog("tick", FALSE, None, NoWorker)
            /\ UNCHANGED <<poll_snapshot, inflight, inflight_generation, last_poll_ts,
                           generation, workers, pobs>>
       ELSE /\ inflight' = TRUE
            /\ last_poll_ts' = clock
            /\ inflight_generation' = Some(generation)
            /\ workers' = Append(workers, NewWorker(generation))
            /\ pobs' = [pobs EXCEPT !.last_start = Some(clock), !.reset_since = FALSE,
                                    !.reset_inflight = FALSE]
            /\ plog' = PLog("tick", TRUE, None, NoWorker)
            /\ UNCHANGED <<poll_snapshot, generation>>
    /\ UNCHANGED <<poll_interval_seconds, clock>>
    /\ UNCHANGED notPoll

\* (mutant) the interval is counted from the last poll start also after reset()
tick_keeping_interval ==
    /\ Len(workers) < MaxWorkers
    /\ IF \/ inflight
          \/ clock - last_poll_ts < poll_interval_seconds
          \/ (pobs.last_start # None /\ clock - pobs.last_start[1] < poll_interval_seconds)
       THEN /\ plog' = PLog("tick", FALSE, None, NoWorker)
            /\ UNCHANGED <<poll_snapshot, inflight, inflight_generation, last_poll_ts,
                           generation, workers, pobs>>
       ELSE /\ inflight' = TRUE
            /\ last_poll_ts' = clock
            /\ inflight_generation' = Some(generation)
            /\ workers' = Append(workers, NewWorker(generation))
            /\ pobs' = [pobs EXCEPT !.last_start = Some(clock), !.reset_since = FALSE,
                                    !.reset_inflight = FALSE]
            /\ plog' = PLog("tick", TRUE, None, NoWorker)
            /\ UNCHANGED <<poll_snapshot, generation>>
    /\ UNCHANGED <<poll_interval_seconds, clock>>
    /\ UNCHANGED notPoll

\* tick(): start one worker if the in-flight and interval gates allow it
tick ==
    /\ Len(workers) < MaxWorkers
    /\ IF inflight \/ clock - last_poll_ts < poll_interval_seconds
       THEN /\ plog' = PLog("tick", FALSE, None, NoWorker)
            /\ UNCHANGED <<poll_snapshot, inflight, inflight_generation, last_poll_ts,
                           generation, workers, pobs>>
       ELSE /\ inflight' = TRUE
            /\ last_poll_ts' = clock
            /\ inflight_generation' = Some(generation)
            /\ workers' = Append(workers, NewWorker(generation))
            /\ pobs' = [pobs EXCEPT !.last_start = Some(clock), !.reset_since = FALSE,
                                    !.reset_inflight = FALSE]
            /\ plog' = PLog("tick", TRUE, None, NoWorker)
            /\ UNCHANGED <<poll_snapshot, generation>>
    /\ UNCHANGED <<poll_interval_seconds, clock>>
    /\ UNCHANGED notPoll

\* get_snapshot_copy(): None, or a clone of the retained snapshot
get_snapshot_copy ==
    /\ plog' = PLog("get_snapshot_copy", FALSE,
                    IF poll_snapshot = None THEN None ELSE clone_snapshot(poll_snapshot),
                    NoWorker)
    /\ UNCHANGED <<poll_snapshot, inflight, inflight_generation, last_poll_ts, generation,
                   poll_interval_seconds, clock, workers, pobs>>
    /\ UNCHANGED notPoll

\* is_poll_inflight()
is_poll_inflight ==
    /\ plog' = PLog("is_poll_inflight", inflight, None, NoWorker)
    /\ UNCHANGED <<poll_snapshot, inflight, inflight_generation, last_poll_ts, generation,
                   poll_interval_seconds, clock, workers, pobs>>
    /\ UNCHANGED notPoll

\* reset(): drop the snapshot, forget the last poll time, bump the generation
reset ==
    /\ generation < MaxGeneration
    /\ poll_snapshot' = None
    /\ last_poll_ts' = 0
    /\ generation' = generation + 1
    /\ workers' = [i \in 1..Len(workers) |-> [workers[i] EXCEPT !.stale = TRUE]]
    /\ pobs' = [pobs EXCEPT !.reset_since = TRUE, !.fresh = FALSE,
                            !.reset_inflight = @ \/ workers # <<>>]
    /\ plog' = PLog("reset", FALSE, None, NoWorker)
    /\ UNCHANGED <<inflight, inflight_generation, poll_interval_seconds, clock>>
    /\ UNCHANGED notPoll

\* a step of worker i that touches no attribute of the poller
WorkerStep(i, w) ==
    /\ workers' = [workers EXCEPT ![i] = w]
    /\ plog' = PLog("worker", FALSE, None, w)
    /\ UNCHANGED <<poll_snapshot, inflight, inflight_generation, last_poll_ts, generation,
                   poll_interval_seconds, clock>>
    /\ UNCHANGED notPoll

\* "snapshot = self._policy.fetch_snapshot()" returns or raises
PollFetch(i) ==
    /\ i \in 1..Len(workers) /\ workers[i].pc = "fetch"
    /\ \/ \E v \in FetchValues :
             /\ WorkerStep(i, [workers[i] EXCEPT !.pc = "apply", !.result = v])
             /\ pobs' = [pobs EXCEPT !.fresh = @ \/ ~workers[i].stale]
       \/ /\ WorkerStep(i, [workers[i] EXCEPT !.pc = "except", !.error = "fetch_error",
                                              !.fetch_raised = TRUE])
          /\ pobs' = pobs

\* (mutant) the result is applied whatever the generation
PollApply_any_generation(i) ==
    /\ i \in 1..Len(workers) /\ workers[i].pc = "apply"
    /\ LET w == workers[i]
           changed == SnapNotEqual(w.result, poll_snapshot)
           w2 == [w EXCEPT !.pc = IF changed THEN "notify" ELSE "finally",
                           !.applied = TRUE, !.prev = poll_snapshot, !.wrote = TRUE]
       IN /\ poll_snapshot' = w.result
          /\ workers' = [workers EXCEPT ![i] = w2]
          /\ plog' = PLog("worker", FALSE, None, w2)
    /\ UNCHANGED <<inflight, inflight_generation, last_poll_ts, generation,
                   poll_interval_seconds, clock, pobs>>
    /\ UNCHANGED notPoll

\* (mutant) every applied result counts as a change
PollApply_always_changed(i) ==
    /\ i \in 1..Len(workers) /\ workers[i].pc = "apply"
    /\ LET w == workers[i]
       IN IF w.generation # generation
          THEN /\ workers' = [workers EXCEPT ![i].pc = "finally"]
               /\ plog' = PLog("worker", FALSE, None, [w EXCEPT !.pc = "finally"])
               /\ UNCHANGED poll_snapshot
          ELSE LET w2 == [w EXCEPT !.pc = "notify",
                                   !.applied = TRUE, !.prev = poll_snapshot,
                                   !.wrote = TRUE]
               IN /\ poll_snapshot' = w.result
                  /\ workers' = [workers EXCEPT ![i] = w2]
                  /\ plog' = PLog("worker", FALSE, None, w2)
    /\ UNCHANGED <<inflight, inflight_generation, last_poll_ts, generation,
                   poll_interval_seconds, clock, pobs>>
    /\ UNCHANGED notPoll

\* the locked block of _poll_worker: discard a stale result, else compare and retain
PollApply(i) ==
    /\ i \in 1..Len(workers) /\ workers[i].pc = "apply"
    /\ LET w == workers[i]
       IN IF w.generation # generation
          THEN /\ workers' = [workers EXCEPT ![i].pc = "finally"]
               /\ plog' = PLog("worker", FALSE, None, [w EXCEPT !.pc = "finally"])
               /\ UNCHANGED poll_snapshot
          ELSE LET changed == SnapNotEqual(w.result, poll_snapshot)
                   w2 == [w EXCEPT !.pc = IF changed THEN "notify" ELSE "finally",
                                   !.applied = TRUE, !.prev = poll_snapshot,
                                   !.wrote = TRUE]
               IN /\ poll_snapshot' = w.result
                  /\ workers' = [workers EXCEPT ![i] = w2]
                  /\ plog' = PLog("worker", FALSE, None, w2)
    /\ UNCHANGED <<inflight, inflight_generation, last_poll_ts, generation,
                   poll_interval_seconds, clock, pobs>>
    /\ UNCHANGED notPoll

\* the outcomes of line 130: both calls return, clone_snapshot raises, or
\* on_snapshot_changed raises
NotifyOutcomes == {"returns", "clone_raises", "callback_raises"}

\* (mutant) what the callback or the clone raises is dropped
PollNotify_swallowing(i) ==
    /\ i \in 1..Len(workers) /\ workers[i].pc = "notify"
    /\ \E outcome \in NotifyOutcomes :
          WorkerStep(i, [workers[i] EXCEPT
                            !.chg_calls = IF outcome = "clone_raises" THEN @ ELSE @ + 1,
                            !.chg_arg = IF outcome = "clone_raises" THEN @
                                        ELSE clone_snapshot(workers[i].result),
                            !.pc = "finally",
                            !.error = CASE outcome = "clone_raises" -> "clone_error"
                                        [] outcome = "callback_raises" -> "callback_error"
                                        [] OTHER -> @])
    /\ pobs' = pobs

\* "self._policy.on_snapshot_changed(self._policy.clone_snapshot(snapshot))";
\* the clone is made first, and either call returns or raises
PollNotify(i) ==
    /\ i \in 1..Len(workers) /\ workers[i].pc = "notify"
    /\ \E outcome \in NotifyOutcomes :
          WorkerStep(i, [workers[i] EXCEPT
                            !.chg_calls = IF outcome = "clone_raises" THEN @ ELSE @ + 1,
                            !.chg_arg = IF outcome = "clone_raises" THEN @
                                        ELSE clone_snapshot(workers[i].result),
                            !.pc = IF outcome = "returns" THEN "finally" ELSE "except",
                            !.error = CASE outcome = "clone_raises" -> "clone_error"
                                        [] outcome = "callback_raises" -> "callback_error"
                                        [] OTHER -> @])
    /\ pobs' = pobs

\* (mutant) a fetch error is not reported
PollExcept_silent(i) ==
    /\ i \in 1..Len(workers) /\ workers[i].pc = "except"
    /\ WorkerStep(i, [workers[i] EXCEPT !.pc = "finally"])
    /\ pobs' = pobs

\* "except Exception as error: self._policy.on_poll_error(error)"; whether the
\* error callback returns or raises, the finally block is next
PollExcept(i) ==
    /\ i \in 1..Len(workers) /\ workers[i].pc = "except"
    /\ WorkerStep(i, [workers[i] EXCEPT !.err_calls = @ + 1, !.err_arg = workers[i].error,
                                        !.pc = "finally"])
    /\ pobs' = pobs

\* (mutant) a worker that ends after an error leaves the flag set
PollFinally_after_error_keeping_flag(i) ==
    /\ i \in 1..Len(workers) /\ workers[i].pc = "finally"
    /\ LET w == workers[i]
           mine == inflight_generation = Some(w.generation) /\ w.err_calls = 0
       IN /\ inflight' = IF mine THEN FALSE ELSE inflight
          /\ inflight_generation' = IF mine THEN None ELSE inflight_generation
          /\ workers' = [j \in 1..(Len(workers) - 1) |->
                            IF j < i THEN workers[j] ELSE workers[j + 1]]
          /\ plog' = PLog("worker_end", FALSE, None, [w EXCEPT !.pc = "end"])
    /\ UNCHANGED <<poll_snapshot, last_poll_ts, generation, poll_interval_seconds, clock,
                   pobs>>
    /\ UNCHANGED notPoll

\* the finally block of _poll_worker; the thread ends
PollFinally(i) ==
    /\ i \in 1..Len(workers) /\ workers[i].pc = "finally"
    /\ LET w == workers[i]
           mine == inflight_generation = Some(w.generation)
       IN /\ inflight' = IF mine THEN FALSE ELSE inflight
          /\ inflight_generation' = IF mine THEN None ELSE inflight_generation
          /\ workers' = [j \in 1..(Len(workers) - 1) |->
                            IF j < i THEN workers[j] ELSE workers[j + 1]]
          /\ plog' = PLog("worker_end", FALSE, None, [w EXCEPT !.pc = "end"])
    /\ UNCHANGED <<poll_snapshot, last_poll_ts, generation, poll_interval_seconds, clock,
                   pobs>>
    /\ UNCHANGED notPoll

\* time passes
Tock ==
    /\ clock < Epoch + MaxClock
    /\ clock' = clock + 1
    /\ plog' = PLog("time", FALSE, None, NoWorker)
    /\ UNCHANGED <<poll_snapshot, inflight, inflight_generation, last_poll_ts, generation,
                   poll_interval_seconds, workers, pobs>>
    /\ UNCHANGED notPoll

\* A poller has been constructed with some policy; no poll has been made.
InitPoll ==
    /\ active_form_managers = {}
    /\ change_callbacks = <<>>
    /\ live_context_token_counter = 0
    /\ live_context_cache = None
    /\ dispatch_cache = None
    /\ snapCount = 0
    /\ lastSnap = None
    /\ since = NoSince
    /\ cycleFirst = None
    /\ log = NoLog
    /\ mg_scopes = EmptyDict
    /\ mg_my_scope = <<>>
    /\ mg_result = None
    /\ preview_scope_map = EmptyDict
    /\ pending_preview_keys = {}
    /\ preview_update_timer = None
    /\ timers = {}
    /\ timerCount = 0
    /\ burst = None
    /\ full_requested = FALSE
    /\ pcall = NoCall
    /\ scoped_windows = EmptyDict
    /\ windows = <<>>
    /\ active_window = None
    /\ wlog = NoWlog
    /\ window_attrs = <<>>
    /\ nav_timers = <<>>
    /\ nav_log = None
    /\ poll_snapshot = None
    /\ inflight = FALSE
    /\ inflight_generation = None
    /\ last_poll_ts = 0
    /\ generation = 0
    /\ poll_interval_seconds \in 0..MaxInterval
    /\ clock = Epoch
    /\ workers = <<>>
    /\ pobs = NoPobs
    /\ plog = NoPlog
    /\ editor = NoEditor
    /\ browser = NewBrowser

PollNext ==
    \/ tick
    \/ get_snapshot_copy
    \/ is_poll_inflight
    \/ reset
    \/ \E i \in 1..MaxWorkers : PollFetch(i)
    \/ \E i \in 1..MaxWorkers : PollApply(i)
    \/ \E i \in 1..MaxWorkers : PollNotify(i)
    \/ \E i \in 1..MaxWorkers : PollExcept(i)
    \/ \E i \in 1..MaxWorkers : PollFinally(i)
    \/ Tock

SpecPoll == InitPoll /\ [][PollNext]_vars

\* ---------------------------------------------------- FunctionListEditorWidget
\* the dict-pattern keys (components) at hand, in sorted order
KeyOrder == <<"1", "2">>

ChannelKeys == Range(KeyOrder)

\* sorted(components)
Sorted(S) == SelectSeq(KeyOrder, LAMBDA k : k \in S)

\* the entries of a function list, (func, kwargs) pairs: "f" is a function with
\* empty kwargs as add_function makes it, "g" the same with a parameter set
FuncEntries == {"f", "g"}

\* the lists of functions that callers and edited code give: one of each length,
\* the last entry of a longer list with a parameter set
FuncLists == {[i \in 1..n |-> IF i = n /\ n > 1 THEN "g" ELSE "f"] : n \in 0..MaxFuncs}

\* d[k] = v on a dict pattern: a new key goes last
PatternSet(p, k, v) ==
    DictPattern(IF k \in DOMAIN p.items THEN p.keys ELSE Append(p.keys, k),
                DictSet(p.items, k, v))

\* d.get(k, [])
PatternGet(p, k) == IF p.dict /\ k \in DOMAIN p.items THEN p.items[k] ELSE <<>>

\* all tokens of a token list or a dict of token lists
TokensOf(pt) ==
    IF pt.dict THEN UNION {Range(pt.items[k]) : k \in DOMAIN pt.items} ELSE Range(pt.list)

SetMax(S) == CHOOSE x \in S : \A y \in S : y <= x

\* ScopeTokenGenerator("func"): tokens are func_1, func_2, ...; the state of
\* the generator is the number of the last token.  ensure() returns the next.
Ensure(counter) == counter + 1

\* ScopeTokenGenerator.seed_from_tokens: no token handed out later is one of these
SeedFromTokens(counter, tokens) ==
    IF tokens = {} THEN counter ELSE SetMax(tokens \cup {counter})

\* _seed_func_token_generator
seed_func_token_generator(e) ==
    [e EXCEPT !.func_token_generator = SeedFromTokens(@, TokensOf(e.pattern_tokens))]

\* the loop of _normalize_function_list from entry i on
RECURSIVE NormalizeLoop(_, _, _, _, _, _)
NormalizeLoop(i, n, seed_tokens, seen_tokens, counter, tokens) ==
    IF i > n THEN [tokens |-> tokens, seen |-> seen_tokens, counter |-> counter]
    ELSE LET has_seed == i <= Len(seed_tokens)
             c1 == IF has_seed THEN counter ELSE Ensure(counter)
             t1 == IF has_seed THEN seed_tokens[i] ELSE Ensure(counter)
             dup == t1 \in seen_tokens
             c2 == IF dup THEN Ensure(c1) ELSE c1
             t2 == IF dup THEN Ensure(c1) ELSE t1
         IN NormalizeLoop(i + 1, n, seed_tokens, seen_tokens \cup {t2}, c2,
                          Append(tokens, t2))

\* _normalize_function_list: the tokens of the entries, the tokens seen and the
\* generator afterwards
normalize_function_list(func_list, seen_tokens, seed_tokens, counter) ==
    NormalizeLoop(1, Len(func_list), seed_tokens, seen_tokens, counter, <<>>)

\* the loops over the keys of a dict pattern in _initialize_pattern_data and
\* _apply_edited_pattern_internal: one seen_tokens set for all keys
RECURSIVE NormalizeDict(_, _, _, _, _, _)
NormalizeDict(keys, items, seeds, seen_tokens, counter, tokens) ==
    IF keys = <<>> THEN [tokens |-> tokens, counter |-> counter]
    ELSE LET k == Head(keys)
             r == IF items[k] # <<>>
                  THEN normalize_function_list(items[k], seen_tokens, PatternGet(seeds, k),
                                               counter)
                  ELSE [tokens |-> <<>>, seen |-> seen_tokens, counter |-> counter]
         IN NormalizeDict(Tail(keys), items, seeds, r.seen, r.counter,
                          DictSet(tokens, k, r.tokens))

\* _persist_pattern_tokens_to_state
persist_pattern_tokens_to_state(e) == [e EXCEPT !.metadata = e.pattern_tokens]

\* _set_tokens_for_current_view
set_tokens_for_current_view(e, tokens) ==
    IF e.is_dict_mode
    THEN LET pt == IF e.pattern_tokens.dict THEN e.pattern_tokens
                   ELSE DictPattern(<<>>, <<>>)
             key == IF e.selected_pattern_key # None THEN e.selected_pattern_key[1] ELSE ""
         IN [e EXCEPT !.pattern_tokens = PatternSet(pt, key, tokens)]
    ELSE [e EXCEPT !.pattern_tokens = ListPattern(tokens)]

\* tokens made as long as the function list: new ones appended, or cut
FitTokens(e) ==
    LET have == Len(e.current_function_tokens)
        want == Len(e.functions)
    IN IF have < want
       THEN [e EXCEPT !.current_function_tokens =
                          @ \o [i \in 1..(want - have) |-> e.func_token_generator + i],
                      !.func_token_generator = @ + (want - have)]
       ELSE [e EXCEPT !.current_function_tokens = SubSeq(@, 1, want)]

\* _get_tokens_for_current_view
get_tokens_for_current_view(e) ==
    IF e.is_dict_mode /\ e.pattern_tokens.dict
    THEN PatternGet(e.pattern_tokens,
                    IF e.selected_pattern_key # None THEN e.selected_pattern_key[1] ELSE "")
    ELSE IF ~e.pattern_tokens.dict THEN e.pattern_tokens.list
    ELSE <<>>

\* (mutant) the token record is neither updated nor persisted
update_pattern_data_without_tokens(e) ==
    LET e1 == FitTokens(e)
    IN IF e1.is_dict_mode /\ e1.selected_pattern_key # None
       THEN [e1 EXCEPT !.pattern_data =
                PatternSet(IF e1.pattern_data.dict THEN e1.pattern_data
                           ELSE DictPattern(<<>>, <<>>),
                           e1.selected_pattern_key[1], e1.functions)]
       ELSE [e1 EXCEPT !.pattern_data = ListPattern(e1.functions)]

\* _update_pattern_data
update_pattern_data(e) ==
    LET e1 == FitTokens(e)
        e2 == IF e1.is_dict_mode /\ e1.selected_pattern_key # None
              THEN [e1 EXCEPT !.pattern_data =
                       PatternSet(IF e1.pattern_data.dict THEN e1.pattern_data
                                  ELSE DictPattern(<<>>, <<>>),
                                  e1.selected_pattern_key[1], e1.functions)]
              ELSE [e1 EXCEPT !.pattern_data = ListPattern(e1.functions)]
    IN persist_pattern_tokens_to_state(
           set_tokens_for_current_view(e2, e2.current_function_tokens))

\* _populate_function_list: a pane without a token gets a new one
populate_function_list(e) ==
    IF Len(e.current_function_tokens) < Len(e.functions)
    THEN LET e1 == FitTokens(e)
         IN persist_pattern_tokens_to_state(
                set_tokens_for_current_view(e1, e1.current_function_tokens))
    ELSE e

\* _commit_pattern_mutation with refresh_ui = _populate_function_list
commit_pattern_mutation(e) == populate_function_list(update_pattern_data(e))

\* list.insert(index, x), index counted from 0
ListInsert(l, index, x) ==
    IF index >= Len(l) THEN Append(l, x)
    ELSE SubSeq(l, 1, index) \o <<x>> \o SubSeq(l, index + 1, Len(l))

\* list.pop(index), index counted from 0
ListPop(l, index) == SubSeq(l, 1, index) \o SubSeq(l, index + 2, Len(l))

\* l[i], l[j] = l[j], l[i], indices counted from 0
ListSwap(l, i, j) ==
    [k \in 1..Len(l) |-> IF k = i + 1 THEN l[j + 1] ELSE IF k = j + 1 THEN l[i + 1] ELSE l[k]]

\* the call that an editor step makes
Op(name, index, direction) == [name |-> name, index |-> index, direction |-> direction]

\* the call op changes the editor to e2; the generator stays within the bound
EditorStep(op, e2) ==
    /\ e2.func_token_generator <= MaxFuncTokens
    /\ editor' = [e2 EXCEPT !.last_op = op]
    /\ UNCHANGED notEditor

\* _initialize_pattern_data(initial_functions) of the constructor, with the
\* tokens that the context state's metadata holds
initialize_pattern_data(initial_functions, persisted) ==
    LET e0 == seed_func_token_generator(
                  [NoEditor EXCEPT !.constructed = TRUE, !.pattern_tokens = persisted,
                                   !.metadata = persisted])
    IN /\ ~editor.constructed
       /\ IF initial_functions = None
          THEN EditorStep(Op("initialize_pattern_data", 0, 0), persist_pattern_tokens_to_state(
                              [e0 EXCEPT !.pattern_tokens = ListPattern(<<>>)]))
          ELSE IF ~initial_functions.dict
          THEN LET r == normalize_function_list(
                            initial_functions.list, {},
                            IF persisted.dict THEN <<>> ELSE persisted.list,
                            e0.func_token_generator)
               IN EditorStep(Op("initialize_pattern_data", 0, 0), persist_pattern_tokens_to_state(
                      [e0 EXCEPT !.functions = initial_functions.list,
                                 !.pattern_data = ListPattern(initial_functions.list),
                                 !.pattern_tokens = ListPattern(r.tokens),
                                 !.current_function_tokens = r.tokens,
                                 !.func_token_generator = r.counter]))
          ELSE LET r == NormalizeDict(initial_functions.keys, initial_functions.items,
                                      IF persisted.dict THEN persisted
                                      ELSE DictPattern(<<>>, <<>>),
                                      {}, e0.func_token_generator, <<>>)
                   first == IF initial_functions.keys # <<>>
                            THEN Some(Head(initial_functions.keys)) ELSE None
               IN EditorStep(Op("initialize_pattern_data", 0, 0), persist_pattern_tokens_to_state(
                      [e0 EXCEPT !.is_dict_mode = TRUE,
                                 !.pattern_data = initial_functions,
                                 !.pattern_tokens =
                                     DictPattern(initial_functions.keys, r.tokens),
                                 !.selected_pattern_key = first,
                                 !.functions = IF first # None
                                               THEN initial_functions.items[first[1]]
                                               ELSE <<>>,
                                 !.current_function_tokens =
                                     IF first # None THEN r.tokens[first[1]] ELSE <<>>,
                                 !.func_token_generator = r.counter]))

\* add_function(), a function having been selected
add_function ==
    /\ editor.constructed /\ Len(editor.functions) < MaxFuncs
    /\ EditorStep(Op("add_function", 0, 0), commit_pattern_mutation(
           [editor EXCEPT !.functions = Append(@, "f"),
                          !.current_function_tokens =
                              Append(@, Ensure(editor.func_token_generator)),
                          !.func_token_generator = Ensure(@)]))

\* _add_function_at_index(index), a function having been selected
add_function_at_index(index) ==
    /\ editor.constructed /\ Len(editor.functions) < MaxFuncs
    /\ index \in 0..(Len(editor.functions) - 1)
    /\ EditorStep(Op("add_function_at_index", 0, 0), commit_pattern_mutation(
           [editor EXCEPT !.functions = ListInsert(@, index, "f"),
                          !.current_function_tokens =
                              ListInsert(@, index, Ensure(editor.func_token_generator)),
                          !.func_token_generator = Ensure(@)]))

\* _remove_function(index)
remove_function(index) ==
    /\ editor.constructed
    /\ index \in 0..(Len(editor.functions) - 1)
    /\ EditorStep(Op("remove_function", 0, 0), commit_pattern_mutation(
           [editor EXCEPT !.functions = ListPop(@, index),
                          !.current_function_tokens =
                              IF index < Len(@) THEN ListPop(@, index) ELSE @]))

\* (mutant) the move swaps the function entries and leaves the tokens in place
move_function_leaving_tokens(index, direction) ==
    /\ editor.constructed
    /\ IF index \notin 0..(Len(editor.functions) - 1)
          \/ (index + direction) \notin 0..(Len(editor.functions) - 1)
       THEN EditorStep(Op("move_function", index, direction), editor)
       ELSE EditorStep(Op("move_function", index, direction),
                       update_pattern_data(
                           [editor EXCEPT !.functions = ListSwap(@, index, index + direction)]))

\* _move_function(index, direction); the panes are reordered, not rebuilt
move_function(index, direction) ==
    /\ editor.constructed
    /\ IF index \notin 0..(Len(editor.functions) - 1)
          \/ (index + direction) \notin 0..(Len(editor.functions) - 1)
       THEN EditorStep(Op("move_function", index, direction), editor)
       ELSE EditorStep(Op("move_function", index, direction),
                       update_pattern_data(
                           [editor EXCEPT !.functions = ListSwap(@, index, index + direction),
                                          !.current_function_tokens =
                                              ListSwap(@, index, index + direction)]))

\* _on_parameter_changed(index, param_name, value): the entry gets new kwargs;
\* no refresh_ui
on_parameter_changed(index) ==
    /\ editor.constructed
    /\ IF index \notin 0..(Len(editor.functions) - 1)
       THEN EditorStep(Op("on_parameter_changed", index, 0), editor)
       ELSE EditorStep(Op("on_parameter_changed", index, 0),
                       update_pattern_data(
                           [editor EXCEPT !.functions = [@ EXCEPT ![index + 1] = "g"]]))

\* _apply_edited_pattern(new_pattern): the pattern that the edited code defines
apply_edited_pattern(new_pattern) ==
    LET e0 == seed_func_token_generator(editor)
    IN /\ editor.constructed
       /\ IF e0.is_dict_mode # new_pattern.dict
          THEN \* ValueError, caught: an error dialog, nothing else
               EditorStep(Op("apply_edited_pattern", 0, 0), e0)
          ELSE IF e0.is_dict_mode
          THEN LET r == NormalizeDict(new_pattern.keys, new_pattern.items,
                                      IF e0.pattern_tokens.dict THEN e0.pattern_tokens
                                      ELSE DictPattern(<<>>, <<>>),
                                      {}, e0.func_token_generator, <<>>)
                   sel == e0.selected_pattern_key
                   keeps == sel # None /\ sel[1] # "" /\ sel[1] \in DOMAIN new_pattern.items
                   channel == IF keeps THEN sel
                              ELSE IF new_pattern.keys # <<>>
                                   THEN Some(Head(new_pattern.keys)) ELSE None
               IN EditorStep(Op("apply_edited_pattern", 0, 0), populate_function_list(persist_pattern_tokens_to_state(
                      [e0 EXCEPT !.pattern_data = new_pattern,
                                 !.pattern_tokens = DictPattern(new_pattern.keys, r.tokens),
                                 !.selected_pattern_key =
                                     IF channel # None THEN channel ELSE sel,
                                 !.functions = IF channel # None
                                               THEN new_pattern.items[channel[1]]
                                               ELSE <<>>,
                                 !.current_function_tokens =
                                     IF channel # None THEN r.tokens[channel[1]] ELSE <<>>,
                                 !.func_token_generator = r.counter])))
          ELSE LET r == normalize_function_list(
                            new_pattern.list, {},
                            IF e0.pattern_tokens.dict THEN <<>> ELSE e0.pattern_tokens.list,
                            e0.func_token_generator)
               IN EditorStep(Op("apply_edited_pattern", 0, 0), populate_function_list(persist_pattern_tokens_to_state(
                      [e0 EXCEPT !.pattern_data = ListPattern(new_pattern.list),
                                 !.functions = new_pattern.list,
                                 !.pattern_tokens = ListPattern(r.tokens),
                                 !.current_function_tokens = r.tokens,
                                 !.func_token_generator = r.counter])))

\* the first selected component that has functions in the old pattern
ReferenceKey(component_keys, old_pattern) ==
    LET having == SelectSeq(component_keys,
                            LAMBDA k : k \in DOMAIN old_pattern.items
                                       /\ old_pattern.items[k] # <<>>)
    IN IF having = <<>> THEN None ELSE Some(Head(having))

\* _update_components(new_components): no component selected, back to list mode
UpdateComponentsToList(e) ==
    IF e.is_dict_mode
    THEN LET old_tokens == IF e.pattern_tokens.dict THEN e.pattern_tokens
                           ELSE DictPattern(<<>>, <<>>)
             selected_key == IF e.selected_pattern_key # None
                             THEN e.selected_pattern_key[1] ELSE ""
             tokens == PatternGet(old_tokens, selected_key)
         IN [e EXCEPT !.pattern_data = ListPattern(e.functions),
                      !.pattern_tokens = ListPattern(tokens),
                      !.current_function_tokens = tokens,
                      !.is_dict_mode = FALSE,
                      !.selected_pattern_key = None]
    ELSE e

\* _update_components(new_components): components selected in list mode
UpdateComponentsToDict(e, component_keys) ==
    LET list_tokens == IF e.pattern_tokens.dict THEN e.current_function_tokens
                       ELSE e.pattern_tokens.list
        first == Head(component_keys)
    IN [e EXCEPT !.pattern_data =
                     DictPattern(component_keys,
                                 [k \in Range(component_keys) |-> e.functions]),
                 !.pattern_tokens =
                     DictPattern(component_keys,
                                 [k \in Range(component_keys) |-> list_tokens]),
                 !.is_dict_mode = TRUE,
                 !.selected_pattern_key = Some(first),
                 !.current_function_tokens = list_tokens]

\* _update_components(new_components): components selected in dict mode
UpdateComponentsInDict(e, component_keys) ==
    LET old_pattern == IF e.pattern_data.dict THEN e.pattern_data
                       ELSE DictPattern(<<>>, <<>>)
        old_tokens == IF e.pattern_tokens.dict THEN e.pattern_tokens
                      ELSE DictPattern(<<>>, <<>>)
        ref == ReferenceKey(component_keys, old_pattern)
        new_pattern ==
            DictPattern(component_keys,
                        [k \in Range(component_keys) |->
                            IF k \in DOMAIN old_pattern.items THEN old_pattern.items[k]
                            ELSE IF ref # None THEN old_pattern.items[ref[1]] ELSE <<>>])
        new_tokens ==
            DictPattern(component_keys,
                        [k \in Range(component_keys) |->
                            IF k \in DOMAIN old_pattern.items THEN PatternGet(old_tokens, k)
                            ELSE IF ref # None THEN PatternGet(old_tokens, ref[1])
                                 ELSE <<>>])
        reselect == e.selected_pattern_key = None
                    \/ e.selected_pattern_key[1] \notin Range(component_keys)
        selected == IF reselect THEN Head(component_keys) ELSE e.selected_pattern_key[1]
    IN [e EXCEPT !.pattern_data = new_pattern,
                 !.pattern_tokens = new_tokens,
                 !.selected_pattern_key = Some(selected),
                 !.functions = IF reselect THEN new_pattern.items[selected] ELSE @,
                 !.current_function_tokens = new_tokens.items[selected]]

\* _update_components(new_components)
update_components(e, new_components) ==
    LET component_keys == Sorted(new_components)
        e1 == IF component_keys = <<>> THEN UpdateComponentsToList(e)
              ELSE IF ~e.is_dict_mode THEN UpdateComponentsToDict(e, component_keys)
              ELSE UpdateComponentsInDict(e, component_keys)
    IN persist_pattern_tokens_to_state(populate_function_list(e1))

\* _handle_component_selection(new_components)
handle_component_selection(new_components) ==
    /\ editor.constructed
    /\ EditorStep(Op("handle_component_selection", 0, 0), update_components(editor, new_components))

\* select_pattern_key(key)
select_pattern_key(key) ==
    /\ editor.constructed
    /\ IF \/ ~editor.is_dict_mode \/ ~editor.pattern_data.dict
          \/ key \notin DOMAIN editor.pattern_data.items
          \/ editor.selected_pattern_key = Some(key)
       THEN EditorStep(Op("select_pattern_key", 0, 0), editor)
       ELSE LET e1 == update_pattern_data(editor)
            IN EditorStep(Op("select_pattern_key", 0, 0), populate_function_list(
                   [e1 EXCEPT !.selected_pattern_key = Some(key),
                              !.functions = PatternGet(e1.pattern_data, key),
                              !.current_function_tokens =
                                  PatternGet(e1.pattern_tokens, key)]))

\* the patterns a caller or the edited code may give
KeySeqs == {<<>>, <<"1">>, <<"2", "1">>}

DictPatterns ==
    UNION {{DictPattern(ks, items) : items \in [Range(ks) -> FuncLists]} : ks \in KeySeqs}

Patterns == {ListPattern(l) : l \in FuncLists} \cup DictPatterns

\* the tokens the metadata of the context state may hold at construction
PersistedTokens ==
    {ListPattern(<<>>), ListPattern(<<1, 2>>), ListPattern(<<1, 1>>),
     DictPattern(<<"1", "2">>, [k \in {"1", "2"} |-> <<1>>])}

EditorNext ==
    \/ \E initial_functions \in {None} \cup Patterns, persisted \in PersistedTokens :
          initialize_pattern_data(initial_functions, persisted)
    \/ add_function
    \/ \E index \in 0..MaxFuncs : add_function_at_index(index)
    \/ \E index \in 0..MaxFuncs : remove_function(index)
    \/ \E index \in 0..MaxFuncs, direction \in {-1, 1} : move_function(index, direction)
    \/ \E index \in 0..MaxFuncs : on_parameter_changed(index)
    \/ \E new_pattern \in Patterns : apply_edited_pattern(new_pattern)
    \/ \E new_components \in SUBSET ChannelKeys : handle_component_selection(new_components)
    \/ \E key \in ChannelKeys : select_pattern_key(key)

SpecEditor == Init /\ [][EditorNext]_vars

\* --------------------------------------------------- ZMQServerBrowserWidgetABC
\* what scan_ports can return: the servers that answer at the time of the scan
ServerLists == {<<>>, <<"p1">>, <<"p1", "p2">>}

\* a step of the browser widget or of one of its threads
BrowserStep(name, b) ==
    /\ browser' = [b EXCEPT !.last_op = name]
    /\ UNCHANGED notBrowser

\* (mutant) a refresh is skipped while a scan is under way
refresh_servers_guarded ==
    /\ browser.started < MaxScans
    /\ IF browser.is_cleaning_up \/ browser.scans # <<>> \/ browser.queue # <<>>
       THEN BrowserStep("refresh_servers", browser)
       ELSE BrowserStep("refresh_servers",
                        [browser EXCEPT !.started = @ + 1,
                                        !.scans = Append(@, [id |-> browser.started + 1,
                                                             pc |-> "scan",
                                                             servers |-> <<>>])])

\* refresh_servers(), called by showEvent, by the refresh timer and by the
\* refresh button: a new thread for _scan_and_emit
refresh_servers ==
    /\ browser.started < MaxScans
    /\ IF browser.is_cleaning_up
       THEN BrowserStep("refresh_servers", browser)
       ELSE BrowserStep("refresh_servers",
                        [browser EXCEPT !.started = @ + 1,
                                        !.scans = Append(@, [id |-> browser.started + 1,
                                                             pc |-> "scan",
                                                             servers |-> <<>>])])

\* "servers = self._scan_service.scan_ports(self.ports_to_scan)" in thread i
ScanPorts(i) ==
    /\ i \in 1..Len(browser.scans) /\ browser.scans[i].pc = "scan"
    /\ \E servers \in ServerLists :
          BrowserStep("scan_ports",
                      [browser EXCEPT !.scans[i].pc = "emit", !.scans[i].servers = servers])

\* "self._scan_complete.emit(servers)" in thread i: the receiver lives in the UI
\* thread, so the call of the slot is queued there; the thread ends
ScanEmit(i) ==
    /\ i \in 1..Len(browser.scans) /\ browser.scans[i].pc = "emit"
    /\ BrowserStep("emit",
                   [browser EXCEPT
                       !.queue = Append(@, [id |-> browser.scans[i].id,
                                            servers |-> browser.scans[i].servers]),
                       !.scans = [j \in 1..(Len(browser.scans) - 1) |->
                                     IF j < i THEN browser.scans[j]
                                     ELSE browser.scans[j + 1]]])

\* the UI thread delivers the oldest queued signal to _update_server_list
update_server_list ==
    /\ browser.queue # <<>>
    /\ BrowserStep("_update_server_list",
                   [browser EXCEPT !.servers = Head(browser.queue).servers,
                                   !.replaced = browser.applied,
                                   !.applied = Head(browser.queue).id,
                                   !.queue = Tail(@)])

\* cleanup(): from now on refresh_servers returns at once
browser_cleanup ==
    /\ ~browser.is_cleaning_up
    /\ BrowserStep("cleanup", [browser EXCEPT !.is_cleaning_up = TRUE])

BrowserNext ==
    \/ refresh_servers
    \/ \E i \in 1..MaxScans : ScanPorts(i)
    \/ \E i \in 1..MaxScans : ScanEmit(i)
    \/ update_server_list
    \/ browser_cleanup

SpecBrowser == Init /\ [][BrowserNext]_vars

\* =================================================================== claims
\* ---- reading the log of the last service call
CalledIn(lg) == {lg.events[i].x : i \in {j \in 1..Len(lg.events) : lg.events[j].k = "called"}}

EventIndexes(lg, kinds) == {i \in 1..Len(lg.events) : lg.events[i].k \in kinds}

Notifying(lg) == lg.op \in {"unregister", "increment_token", "trigger_global_refresh"}

RaiseKinds == {"raise_deleted", "raise_runtime", "raise_other"}

RaisedIn(lg) == {l \in CalledIn(lg) : lg.beh[l].k \in RaiseKinds}

DisconnectedIn(lg) == {lg.beh[l].x : l \in {c \in CalledIn(lg) : lg.beh[c].k = "disconnect"}}

\* A step in which a service call named in ops was made (every call flips log.tick).
CallStep(ops) == log'.tick # log.tick /\ log'.op \in ops

\* C1: over every step the token does not decrease, and every register or
\* unregister call (of a registered or an unregistered manager alike) leaves the
\* token strictly greater than it was before the call.
C1_TokenMonotone ==
    [][/\ live_context_token_counter' >= live_context_token_counter
       /\ CallStep({"register", "unregister"})
             => live_context_token_counter' > live_context_token_counter]_vars

\* C1 witness: a manager that was already registered has been registered again,
\* or one that was not registered has been unregistered, and the token moved on.
C1_Witness ==
    /\ live_context_token_counter >= 2
    /\ \/ log.op = "register" /\ log.had
       \/ log.op = "unregister" /\ ~log.had

\* C6: register(manager) adds the manager and bumps the token by one, invokes no
\* listener and leaves the listener list as it was.
C6_RegisterSilent ==
    [][CallStep({"register"}) =>
          /\ active_form_managers' = active_form_managers \cup {log'.arg}
          /\ live_context_token_counter' = live_context_token_counter + 1
          /\ change_callbacks' = change_callbacks
          /\ EventIndexes(log', {"called", "skipped", "removed"}) = {}]_vars

\* C6 witness: register ran while two listeners were connected.
C6_Witness ==
    /\ log.op = "register"
    /\ Len(log.start) = 2
    /\ log.arg \in active_form_managers

\* C7 (the claim as stated): in a notification in which a listener raised, the
\* notifying operation raises nothing, every other listener connected at its
\* start is invoked (one whose Qt object is deleted is skipped by design), a
\* listener whose failure is no destroyed-object failure stays connected, and of
\* the raising listeners exactly those with a destroyed-object failure are removed.
C7_RaisingListenerIsolated ==
    (Notifying(log) /\ RaisedIn(log) # {}) =>
        /\ log.escaped = "none"
        /\ \A l \in Range(log.start) \ RaisedIn(log) :
              l \in CalledIn(log) \/ log.beh[l].k = "sip_deleted"
        /\ \A r \in RaisedIn(log) \ DisconnectedIn(log) :
              (r \in Range(change_callbacks)) <=> (log.beh[r].k # "raise_deleted")
        /\ \A l \in Range(log.start) \ (RaisedIn(log) \cup DisconnectedIn(log)) :
              log.beh[l].k # "sip_deleted" => l \in Range(change_callbacks)

\* The same without its first conjunct: what a raising listener does to the
\* others and to the listener list.
C7_OthersAndRemoval ==
    (Notifying(log) /\ RaisedIn(log) # {}) =>
        /\ \A l \in Range(log.start) \ RaisedIn(log) :
              l \in CalledIn(log) \/ log.beh[l].k = "sip_deleted"
        /\ \A r \in RaisedIn(log) \ DisconnectedIn(log) :
              (r \in Range(change_callbacks)) <=> (log.beh[r].k # "raise_deleted")
        /\ \A l \in Range(log.start) \ (RaisedIn(log) \cup DisconnectedIn(log)) :
              log.beh[l].k # "sip_deleted" => l \in Range(change_callbacks)

\* C9: trigger_global_refresh attempts the refresh of every registered manager
\* exactly once whether or not refreshes raise, no refresh failure reaches the
\* caller, and the one token bump and the listener calls come after the last
\* refresh attempt.
C9_LogOk(lg) ==
    LET refreshes == EventIndexes(lg, {"refresh_ok", "refresh_raised"})
        bumps == EventIndexes(lg, {"bump"})
    IN /\ {lg.events[i].x : i \in refreshes} = active_form_managers
       /\ Cardinality(refreshes) = Cardinality(active_form_managers)
       /\ Cardinality(bumps) = 1
       /\ \A i \in refreshes : \A b \in bumps : i < b
       /\ \A i \in EventIndexes(lg, {"called", "skipped"}) : \A b \in bumps : b < i
       /\ lg.start # <<>> => EventIndexes(lg, {"called", "skipped"}) # {}

C9_GlobalRefreshTolerant ==
    [][CallStep({"trigger_global_refresh"}) =>
          /\ live_context_token_counter' = live_context_token_counter + 1
          /\ log'.escaped # "refresh_error"
          /\ C9_LogOk(log')]_vars

\* C9 witness: a global refresh over two managers in which a refresh raised
\* and a listener was called afterwards.
C9_Witness ==
    /\ log.op = "trigger_global_refresh"
    /\ Cardinality(active_form_managers) = 2
    /\ EventIndexes(log, {"refresh_raised"}) # {}
    /\ log.events[1].k = "refresh_raised"
    /\ CalledIn(log) # {}

\* ---- reading managers and snapshots
RECURSIVE Subtree(_)
Subtree(m) == {m} \cup UNION {Subtree(n) : n \in Range(ManagerAttrs[m].nested_managers)}

\* the registered managers and the managers nested under them
Reached(registered) == UNION {Subtree(m) : m \in registered}

HoldsData(m) == ManagerAttrs[m].object_instance # None

\* a missing scope id counts as the root scope ""
ScopeOf(m) == IF ManagerAttrs[m].scope_id = None THEN <<>> ELSE ManagerAttrs[m].scope_id[1]

TypeOf(m) == ManagerAttrs[m].object_instance[1]

SameSlot(m, n) == HoldsData(m) /\ HoldsData(n) /\ ScopeOf(m) = ScopeOf(n) /\ TypeOf(m) = TypeOf(n)

\* scopes[s][T] is m's values
Includes(scopes, m) ==
    /\ ScopeOf(m) \in DOMAIN scopes
    /\ TypeOf(m) \in DOMAIN scopes[ScopeOf(m)]
    /\ scopes[ScopeOf(m)][TypeOf(m)] = ManagerAttrs[m].values

\* scopes holds an entry for exactly the managers of ms that hold data
ExactlyFor(scopes, ms) ==
    LET holders == {m \in ms : HoldsData(m)}
    IN /\ \A m \in holders : Includes(scopes, m)
       /\ DOMAIN scopes = {ScopeOf(m) : m \in holders}
       /\ \A sc \in DOMAIN scopes :
             DOMAIN scopes[sc] = {TypeOf(m) : m \in {h \in holders : ScopeOf(h) = sc}}

\* C2 (the claim as stated): a collect() that follows a collect() with no token
\* bump between them returns the identical snapshot object and builds no snapshot.
C2_NoBumpSameSnapshot ==
    [][(CallStep({"collect"}) /\ lastSnap # None /\ ~since.bumped) =>
          (lastSnap' = lastSnap /\ snapCount' = snapCount)]_vars

\* C2 (amended): the same, unless the first call was answered from the cache of
\* a dispatch cycle that has ended before the second call.
C2_NoBumpSameSnapshotAmended ==
    [][(/\ CallStep({"collect"}) /\ lastSnap # None /\ ~since.bumped
        /\ ~(since.viaDispatch /\ since.boundary)) =>
          (lastSnap' = lastSnap /\ snapCount' = snapCount)]_vars

\* C2 witness: a second collect() without a bump since the first, made after a
\* dispatch cycle began in between, at a token that was bumped twice before.
C2_Witness ==
    /\ log.op = "collect" /\ log.had
    /\ ~log.prior.bumped /\ log.prior.boundary /\ ~log.prior.viaDispatch
    /\ dispatch_cache # None
    /\ lastSnap[1].token = 2

\* C3 (the claim as stated): a collect() that follows a collect() with a register
\* call between them returns a snapshot with a strictly greater token, whose scopes
\* hold the values of each newly registered manager that holds data.
C3_RegisterThenCollect ==
    [][(CallStep({"collect"}) /\ lastSnap # None /\ since.registered # {}) =>
          /\ lastSnap'[1].token > lastSnap[1].token
          /\ \A m \in since.registered \cap active_form_managers :
                HoldsData(m) => Includes(lastSnap'[1].scopes, m)]_vars

\* C3 (amended): the same when the second call is not answered from the cache of
\* the running dispatch cycle, and for the scopes of a newly registered manager
\* when no other collected manager has its scope id and type.
C3_RegisterThenCollectAmended ==
    [][(/\ CallStep({"collect"}) /\ lastSnap # None /\ since.registered # {}
        /\ ~(dispatch_cache # None /\ "live_context" \in DOMAIN dispatch_cache[1])) =>
          /\ lastSnap'[1].token > lastSnap[1].token
          /\ \A m \in since.registered \cap active_form_managers :
                (/\ HoldsData(m)
                 /\ \A n \in Reached(active_form_managers) \ {m} : ~SameSlot(m, n))
                   => Includes(lastSnap'[1].scopes, m)]_vars

\* C3 witness: a collect() outside the dispatch cache after M2 was registered
\* since the previous collect(); M2's values are in the snapshot.
C3_Witness ==
    /\ log.op = "collect" /\ log.had
    /\ "M2" \in log.prior.registered
    /\ ~since.viaDispatch
    /\ "M1" \in active_form_managers
    /\ Includes(lastSnap[1].scopes, "M2")

\* C4: while a dispatch cycle is active, every collect() of the cycle returns
\* the snapshot object that the first collect() of the cycle returned.
C4_DispatchCycleSameSnapshot ==
    [][(CallStep({"collect"}) /\ dispatch_cache # None /\ cycleFirst # None) =>
          lastSnap' = cycleFirst]_vars

\* C4 witness: a collect() made in a cycle after the token was bumped in that
\* cycle; it returned the cycle's first snapshot, which is older than the token.
C4_Witness ==
    /\ log.op = "collect"
    /\ dispatch_cache # None /\ cycleFirst # None
    /\ log.prior.bumped /\ ~log.prior.boundary
    /\ lastSnap = cycleFirst
    /\ lastSnap[1].token < live_context_token_counter

\* C5: a collect() that is not answered from a dispatch cycle's cache returns,
\* when the registered managers and their nested managers hold pairwise distinct
\* (scope id, type), scopes with an entry scopes[s][T] = values for exactly those
\* of them that hold a data instance, and nothing else.
C5_ScopesOfRegisteredManagers ==
    (/\ log.op = "collect" /\ ~since.viaDispatch
     /\ \A m, n \in Reached(active_form_managers) : m # n => ~SameSlot(m, n)) =>
        ExactlyFor(lastSnap[1].scopes, Reached(active_form_managers))

\* C5 witness: a collect() after an unregister, with M1 (whose nested N1 holds
\* data under the root scope) and M4 (no data instance, nested N2) registered.
C5_Witness ==
    /\ log.op = "collect" /\ ~since.viaDispatch
    /\ log.prior.unregistered # {}
    /\ active_form_managers = {"M1", "M4"}
    /\ DOMAIN lastSnap[1].scopes = {<<>>, <<"x">>}

\* ---- the ancestor chain of a scope id, read off the string
\* the number of ":" characters that end str
RECURSIVE TrailingColons(_)
TrailingColons(str) ==
    IF str = <<>> \/ str[Len(str)] # ":" THEN 0
    ELSE 1 + TrailingColons(SubSeq(str, 1, Len(str) - 1))

\* "", my_scope, and each prefix of my_scope that a "::" separator follows
ChainOf(my_scope) ==
    {<<>>, my_scope} \cup
    {SubSeq(my_scope, 1, n) : n \in {j \in 0..(Len(my_scope) - 2) :
        /\ my_scope[j + 1] = ":" /\ my_scope[j + 2] = ":"
        /\ TrailingColons(SubSeq(my_scope, 1, j)) % 2 = 0}}

\* the scopes of the chain that define field f of type t
Definers(scopes, my_scope, t, f) ==
    {p \in ChainOf(my_scope) \cap DOMAIN scopes :
        t \in DOMAIN scopes[p] /\ f \in DOMAIN scopes[p][t]}

MostSpecific(ps) == CHOOSE p \in ps : \A q \in ps : Len(q) <= Len(p)

\* C8: merge_ancestor_values(scopes, my_scope) holds, for each type and field
\* that a scope on the chain "", ..., my_scope defines, the value from the most
\* specific such scope, and holds nothing else: scopes off the chain (siblings,
\* descendants, other strings) contribute nothing.
C8_AncestorMerge ==
    mg_result # None =>
        LET res == mg_result[1]
            onChain == ChainOf(mg_my_scope) \cap DOMAIN mg_scopes
        IN /\ DOMAIN res = UNION {DOMAIN mg_scopes[p] : p \in onChain}
           /\ \A t \in DOMAIN res :
                 /\ DOMAIN res[t] =
                       UNION {DOMAIN mg_scopes[p][t] : p \in {q \in onChain : t \in DOMAIN mg_scopes[q]}}
                 /\ \A f \in DOMAIN res[t] :
                       res[t][f] =
                          mg_scopes[MostSpecific(Definers(mg_scopes, mg_my_scope, t, f))][t][f]

\* C8 witness: the example of the claim, with a sibling scope, a descendant scope
\* and an unrelated scope present as well: {x:3, y:1} for "A::B".
C8_Witness ==
    /\ mg_my_scope = <<"A", ":", ":", "B">>
    /\ DOMAIN mg_scopes = DOMAIN ScopeData
    /\ mg_scopes[<<>>] = [T |-> [x |-> 1]]
    /\ mg_scopes[<<"A", ":", ":", "B">>] = [T |-> [x |-> 3]]
    /\ mg_result = Some([T |-> [x |-> 3, y |-> 1]])

\* C10: a burst of N >= 1 processed handle_cross_window_preview_change calls with
\* recognized scope ids, begun with no key pending and each made before the
\* running timer fired, has exactly one timer running, connected
\* to the incremental-refresh hook; once that timer has fired the incremental hook
\* has been invoked exactly once, with the pending set equal to the union of the
\* keys the N calls affected, no timer is left to invoke it again, and the
\* full-refresh hook has not been invoked.
C10_DebounceCoalescing ==
    burst # None =>
        /\ burst[1].full = 0
        /\ burst[1].incremental <= 1
        /\ burst[1].incremental = 0 =>
              /\ Cardinality(timers) = 1
              /\ \A t \in timers : t.hook = "_process_pending_preview_updates"
              /\ pending_preview_keys = burst[1].keys
        /\ burst[1].incremental = 1 =>
              /\ burst[1].at = burst[1].keys
              /\ timers = {}

\* C10 witness: three calls with distinct scope ids in one burst, then one
\* incremental invocation carrying both affected keys
C10_Witness ==
    /\ burst # None
    /\ burst[1].calls >= 3
    /\ burst[1].incremental = 1
    /\ burst[1].at = ItemKeys

\* ---- a step in which a running timer fires, and the timer that fired
FireStep == timerCount' = timerCount /\ timers' # timers

FiredTimer == CHOOSE t \in timers : t \notin timers'

C12_FullRefreshSurvives ==
    [][(FireStep /\ full_requested) => FiredTimer.hook = "_handle_full_preview_refresh"]_vars

\* ---- a step that is a processed / any handle_cross_window_preview_change call
ChangeCall == pcall'.tick # pcall.tick /\ pcall'.op = "change"

Sentinels == {Some("PIPELINE_CONFIG_CHANGE"), Some("GLOBAL_CONFIG_CHANGE")}

MapValues == {preview_scope_map[s] : s \in DOMAIN preview_scope_map}

IsMapKey(scope_id) == scope_id # None /\ scope_id[1] \in DOMAIN preview_scope_map

\* C13 as stated: a processed change with a sentinel scope id adds every item
\* key that is a value of the scope map; a processed change whose scope id is
\* any other key of the map adds exactly the item key mapped to it.
C13_RoutingAddsKeys ==
    [][(ChangeCall /\ pcall'.process) =>
          /\ pcall'.scope_id \in Sentinels =>
                pending_preview_keys' = pending_preview_keys \cup MapValues
          /\ (pcall'.scope_id \notin Sentinels /\ IsMapKey(pcall'.scope_id)) =>
                pending_preview_keys' =
                   pending_preview_keys \cup {preview_scope_map[pcall'.scope_id[1]]}]_vars

\* C13 amended: the same, for the keys of the map that are not the empty string.
C13_RoutingAddsKeysAmended ==
    [][(ChangeCall /\ pcall'.process) =>
          /\ pcall'.scope_id \in Sentinels =>
                pending_preview_keys' = pending_preview_keys \cup MapValues
          /\ (pcall'.scope_id \notin Sentinels /\ IsMapKey(pcall'.scope_id)
                /\ pcall'.scope_id # Some("")) =>
                pending_preview_keys' =
                   pending_preview_keys \cup {preview_scope_map[pcall'.scope_id[1]]}]_vars

\* C13 witness: one processed change with a sentinel has made both mapped keys pending
C13_Witness ==
    /\ pcall.op = "change" /\ pcall.process
    /\ pcall.scope_id \in Sentinels
    /\ burst # None /\ burst[1].calls = 1 /\ burst[1].incremental = 0
    /\ MapValues = ItemKeys
    /\ pending_preview_keys = ItemKeys

TimerState == <<preview_update_timer, timers, timerCount>>

\* C14 as stated: a change the should-process hook rejects, and a change whose
\* scope id is non-null but not a key of the scope map, leave the pending set
\* unchanged and neither arm nor restart the timer.
C14_IgnoredChangeNoEffect ==
    [][(ChangeCall /\ (~pcall'.process
                        \/ (pcall'.scope_id # None /\ ~IsMapKey(pcall'.scope_id)))) =>
          UNCHANGED <<pending_preview_keys, TimerState>>]_vars

\* C14 amended: the same, for scope ids that are not one of the two sentinels.
C14_IgnoredChangeNoEffectAmended ==
    [][(ChangeCall /\ (~pcall'.process
                        \/ (pcall'.scope_id # None /\ ~IsMapKey(pcall'.scope_id)
                              /\ pcall'.scope_id \notin Sentinels))) =>
          UNCHANGED <<pending_preview_keys, TimerState>>]_vars

\* C14 witness: a processed change with an unmapped scope id arrived while a
\* timer was running with a key pending, and both are as they were
C14_Witness ==
    /\ pcall.op = "change" /\ pcall.process
    /\ pcall.scope_id = Some("s3")
    /\ burst # None /\ burst[1].calls = 1 /\ burst[1].incremental = 0
    /\ pending_preview_keys = {"k1"}
    /\ timers = {[id |-> 1, hook |-> "_process_pending_preview_updates"]}

\* ---- WindowManager: the window an entry refers to
EntryAlive(scope_id) ==
    scope_id \in DOMAIN scoped_windows /\ windows[scoped_windows[scope_id]].alive

\* C15: a show_or_focus(s, factory) call made while the entry of s refers to a
\* window that is alive returns that window and does not invoke the factory,
\* whether the window is visible, hidden or minimized.
C15_SingleWindowReused ==
    [][(wlog'.op = "show_or_focus" /\ EntryAlive(wlog'.scope)) =>
          /\ ~wlog'.factory
          /\ wlog'.window = scoped_windows[wlog'.scope]
          /\ Len(windows') = Len(windows)
          /\ scoped_windows' = scoped_windows]_vars

\* C15 witness: a second show_or_focus has focused window 1 again, and no second
\* window was ever built
C15_Witness ==
    /\ wlog.op = "show_or_focus"
    /\ ~wlog.factory
    /\ wlog.window = 1
    /\ Len(windows) = 1
    /\ windows[1].wrap = Some(wlog.scope)

\* C16: in every reachable state at most one window that is alive and shown
\* exists per scope id.
C16_OneLiveWindowPerScope ==
    \A sc \in Scopes :
        Cardinality({w \in WindowIds : /\ windows[w].alive /\ windows[w].visible
                                       /\ windows[w].scope = sc}) <= 1

\* C17: show_or_focus(s, factory) on an entry that refers to a deleted window
\* invokes the factory once, registers the new window under s and returns it.
C17_StaleEntryReplaced ==
    [][(wlog'.op = "show_or_focus" /\ wlog'.scope \in DOMAIN scoped_windows
          /\ ~EntryAlive(wlog'.scope)) =>
          /\ wlog'.factory
          /\ Len(windows') = Len(windows) + 1
          /\ wlog'.window = Len(windows')
          /\ scoped_windows'[wlog'.scope] = Len(windows')
          /\ windows'[Len(windows')].alive]_vars

\* C17 witness: the entry was stale and the second window has replaced the first
C17_Witness ==
    /\ wlog.op = "show_or_focus"
    /\ wlog.stale
    /\ wlog.window = 2
    /\ ~windows[1].alive
    /\ scoped_windows[wlog.scope] = 2

\* C18: when a window that show_or_focus created for s handles a close event,
\* s leaves the registry and the original close handler runs; a show_or_focus(s)
\* made while s is not in the registry invokes the factory.
C18_CloseUnregisters ==
    [][/\ (wlog'.op \in {"close", "close_window"} /\ wlog'.window # 0
             /\ windows[wlog'.window].wrap # None) =>
             /\ windows[wlog'.window].wrap[1] \notin DOMAIN scoped_windows'
             /\ wlog'.original
       /\ (wlog'.op = "show_or_focus" /\ wlog'.scope \notin DOMAIN scoped_windows) =>
             wlog'.factory]_vars

\* C18 witness: window 1, made for s1, was closed and a second window was then
\* made for s1
C18_Witness ==
    /\ wlog.op = "show_or_focus"
    /\ wlog.factory /\ ~wlog.stale
    /\ wlog.window = 2
    /\ windows[1].alive /\ ~windows[1].visible
    /\ windows[1].wrap = Some(wlog.scope)

\* C19: focus_and_navigate on a scope whose window is alive raises and activates
\* the window exactly when it is not the application's active window.
C19_NoNeedlessRaise ==
    [][(wlog'.op = "focus_and_navigate" /\ EntryAlive(wlog'.scope)) =>
          LET is_active == active_window = Some(scoped_windows[wlog'.scope])
          IN /\ wlog'.raised = ~is_active
             /\ wlog'.activated = ~is_active]_vars

\* C19 witness: focus_and_navigate found its window active and left it alone
C19_Witness ==
    /\ wlog.op = "focus_and_navigate"
    /\ wlog.window # 0
    /\ ~wlog.raised /\ ~wlog.activated
    /\ active_window = Some(wlog.window)

\* C20: when _check_and_navigate finds the widgets not ready and the retry bound
\* has been reached, the navigation is abandoned: neither navigation hook of the
\* window is invoked for the request.
C20_AbandonedAfterRetries ==
    (nav_log # None /\ nav_log[1].gave_up) =>
        (~nav_log[1].item_called /\ ~nav_log[1].field_called)

\* C21: on a window with a form manager, select_and_scroll_to_field is invoked
\* only when the root widget collection is non-empty and every intermediate
\* nested-manager segment of the field path exists
C21_FieldHookOnlyWhenReady ==
    (nav_log # None /\ nav_log[1].field_called /\ nav_log[1].form_manager) =>
        (nav_log[1].widgets = "ready" /\ nav_log[1].nested_ok)

\* ------------------------------------------------------ IntervalSnapshotPoller
\* C22: at most one poll worker is running at any time
C22_AtMostOneWorker == Len(workers) <= 1

\* a second tick() was made while the fetch of the first was still running
C22_Witness ==
    /\ plog.op = "tick" /\ ~plog.started
    /\ Len(workers) = 1 /\ workers[1].pc = "fetch"

\* a step that is a call of tick()
TickStep == plog'.op = "tick"

\* what a tick() that does nothing leaves alone
TickFrame ==
    UNCHANGED <<poll_snapshot, inflight, inflight_generation, generation, last_poll_ts,
                workers>>

\* C23: a tick() made while a poll is in flight, or before the poll interval
\* has elapsed since the last poll start, starts no worker and leaves the
\* snapshot, the in-flight flag, the generation and the last-poll time unchanged
C23_GatedTickNoEffect ==
    [][(TickStep /\ (\/ inflight
                     \/ /\ pobs.last_start # None
                        /\ clock - pobs.last_start[1] < poll_interval_seconds))
          => TickFrame]_vars

\* C23 (amended): the same, where the interval gate applies only if no reset()
\* was made since the last poll start
C23_GatedTickNoEffectAmended ==
    [][(TickStep /\ (\/ inflight
                     \/ /\ pobs.last_start # None /\ ~pobs.reset_since
                        /\ clock - pobs.last_start[1] < poll_interval_seconds))
          => TickFrame]_vars

\* a tick() was held back by the interval gate alone
C23_Witness ==
    /\ plog.op = "tick" /\ ~plog.started /\ ~inflight
    /\ pobs.last_start # None /\ ~pobs.reset_since

\* C24: from reset() until a fetch started after that reset completes
\* successfully, the retained snapshot is None and get_snapshot_copy() returns
\* None, whenever the pre-reset fetch completes
C24_StaleResultDiscarded ==
    ~pobs.fresh =>
        /\ poll_snapshot = None
        /\ plog.op = "get_snapshot_copy" => plog.ret = None

\* a worker started before a reset() ended with a fetched snapshot that was
\* not retained
C24_Witness ==
    /\ plog.op = "worker_end" /\ plog.w.stale /\ plog.w.result # None
    /\ ~plog.w.fetch_raised /\ ~pobs.fresh /\ poll_snapshot = None

\* the locked block of the one worker is executed
ApplyStep ==
    /\ Len(workers) = 1 /\ workers[1].pc = "apply"
    /\ Len(workers') = 1 /\ workers'[1].pc # "apply"

\* C25: after a reset() made while a fetch was in flight, once the stale worker
\* has ended the next tick() starts a fetch whatever the poll interval, and the
\* successful result of a fetch with no reset() since its start is retained
C25_FreshPollAfterReset ==
    [][/\ (TickStep /\ pobs.reset_inflight /\ workers = <<>>) =>
              (Len(workers') = 1 /\ ~workers'[1].stale /\ workers'[1].pc = "fetch")
       /\ (ApplyStep /\ ~workers[1].stale) => poll_snapshot' = workers[1].result]_vars

\* the fetch started by the first tick() after such a reset() was retained
C25_Witness ==
    /\ plog.op = "worker" /\ plog.w.recovery /\ plog.w.applied
    /\ poll_snapshot # None /\ poll_snapshot = plog.w.result
    /\ poll_interval_seconds > 0 /\ pobs.last_start = Some(clock)

\* C26: the in-flight flag is set exactly while a worker is running, whatever
\* the way the workers before ended
C26_InflightWhileRunning == inflight <=> workers # <<>>

\* a worker ended after an error and the flag is clear
C26_Witness ==
    /\ plog.op = "worker_end" /\ plog.w.err_calls = 1 /\ ~inflight

\* C27: a fetch that raises invokes the error callback exactly once with that
\* error and no snapshot-changed callback, and leaves the retained snapshot
\* alone; get_snapshot_copy() returns a clone of the retained snapshot
C27_FetchErrorReported ==
    /\ (plog.op = "worker_end" /\ plog.w.fetch_raised) =>
           /\ plog.w.err_calls = 1 /\ plog.w.err_arg = "fetch_error"
           /\ plog.w.chg_calls = 0 /\ ~plog.w.wrote
    /\ (plog.op = "get_snapshot_copy" /\ poll_snapshot # None) =>
           (plog.ret.val = poll_snapshot.val /\ plog.ret # poll_snapshot)

\* a fetch raised while a good snapshot was retained
C27_Witness ==
    /\ plog.op = "worker_end" /\ plog.w.fetch_raised /\ poll_snapshot # None

\* the value of a snapshot, "none" for None
ValueOf(x) == IF x = None THEN "none" ELSE x.val

TokenEntries(pt) ==
    IF pt.dict
    THEN UNION {{<<k, i>> : i \in 1..Len(pt.items[k])} : k \in DOMAIN pt.items}
    ELSE {<<"", i>> : i \in 1..Len(pt.list)}

TokenAt(pt, entry) == IF pt.dict THEN pt.items[entry[1]][entry[2]] ELSE pt.list[entry[2]]

\* C29: no two entries of the pattern, across all dict keys, carry the same
\* scope token
C29_TokensUnique ==
    editor.constructed =>
        \A a, b \in TokenEntries(editor.pattern_tokens) :
            a # b => TokenAt(editor.pattern_tokens, a) # TokenAt(editor.pattern_tokens, b)

\* ------------------------------------------------ LiveContextService listeners
\* how many times listener l was invoked in the call that lg records
TimesCalled(lg, l) == Cardinality({i \in EventIndexes(lg, {"called"}) : lg.events[i].x = l})

\* C30: on every token bump that requests notification, each listener that is
\* connected when the notification starts (and whose Qt object is not deleted)
\* is invoked exactly once, also when listeners connect or disconnect listeners
\* from inside their callbacks
C30_EachListenerInvokedOnce ==
    Notifying(log) =>
        \A l \in Range(log.start) :
            (l \in Visited(log.events) => log.beh[l].k # "sip_deleted")
                => TimesCalled(log, l) = 1

\* ----------------------------------------- CrossWindowPreviewMixin, two handlers
\* a step that is a call of handle_cross_window_preview_refresh
RefreshCall == pcall'.tick # pcall.tick /\ pcall'.op = "refresh"

CallbacksOf(w) ==
    IF window_attrs[w].callbacks = None THEN <<>> ELSE window_attrs[w].callbacks[1]

\* every navigation request that is pending, as a timer or as a retry callback
PendingRequests ==
    Range(nav_timers) \cup UNION {Range(CallbacksOf(w)) : w \in 1..Len(window_attrs)}

\* C32: each deferred navigation request performs at most 10 build-complete
\* retries; a retry callback is registered only while the retry count is below
\* 10; a retry starts a timer for the widget-ready check of the same request and
\* invokes no navigation hook
C32_BoundedRetries ==
    /\ [](\A req \in PendingRequests : req.retries <= MaxRetries)
    /\ [][\A w \in 1..Len(window_attrs) :
             /\ Len(window_attrs') = Len(window_attrs)
             /\ window_attrs'[w].callbacks # None
             /\ Len(window_attrs'[w].callbacks[1]) > Len(CallbacksOf(w))
             => window_attrs[w].retry_count < MaxRetries]_vars
    /\ [][\A w \in 1..Len(window_attrs) :
             window_attrs'[w].retry_count > window_attrs[w].retry_count
             => /\ nav_log' = nav_log
                /\ Len(nav_timers') = Len(nav_timers) + Len(CallbacksOf(w))
                /\ \A i \in 1..Len(CallbacksOf(w)) :
                      nav_timers'[Len(nav_timers) + i] =
                          [CallbacksOf(w)[i] EXCEPT !.retries = @ + 1]]_vars

\* a request has been retried ten times and its check is pending again
C32_Witness ==
    \E i \in 1..Len(nav_timers) :
        /\ nav_timers[i].retries = MaxRetries
        /\ window_attrs[nav_timers[i].window].retry_count = MaxRetries

\* ------------------------------------------- IntervalSnapshotPoller, callbacks
\* worker i invokes on_snapshot_changed in this step
ChangedCallbackStep(i) ==
    /\ Len(workers') = Len(workers)
    /\ workers'[i].chg_calls > workers[i].chg_calls

\* C33: after reset() has returned, the snapshot-changed callback is never
\* invoked with the result of a fetch that was started before that reset
C33_NoCallbackAfterReset ==
    [][\A i \in 1..Len(workers) : ChangedCallbackStep(i) => ~workers[i].stale]_vars

\* ------------------------------------ FunctionListEditorWidget, entry mutations
\* C34: a move swaps the two function entries and their tokens together, every
\* other entry and token stays where it was, the set of tokens is unchanged, and
\* a move whose source or target index is out of range changes nothing
C34_MoveSwapsTogether ==
    [][editor'.last_op.name = "move_function" =>
          LET i == editor'.last_op.index
              j == i + editor'.last_op.direction
              n == Len(editor.functions)
              f == editor.functions
              t == editor.current_function_tokens
              f2 == editor'.functions
              t2 == editor'.current_function_tokens
          IN IF i \in 0..(n - 1) /\ j \in 0..(n - 1)
             THEN /\ Len(f2) = n /\ Len(t2) = Len(t)
                  /\ f2[i + 1] = f[j + 1] /\ f2[j + 1] = f[i + 1]
                  /\ t2[i + 1] = t[j + 1] /\ t2[j + 1] = t[i + 1]
                  /\ \A k \in (1..n) \ {i + 1, j + 1} : f2[k] = f[k] /\ t2[k] = t[k]
                  /\ Range(t2) = Range(t)
             ELSE [editor' EXCEPT !.last_op = editor.last_op] = editor]_vars

\* a move has exchanged two entries with different kwargs and their tokens
C34_Witness ==
    /\ editor.last_op = Op("move_function", 0, 1)
    /\ editor.functions = <<"g", "f">>
    /\ editor.current_function_tokens = <<2, 1>>

\* the step is a pattern mutation that was committed: add, insert, remove, move
\* or parameter change, the last three with indices in range
CommittedMutation ==
    LET op == editor'.last_op
        InRange(i) == i \in 0..(Len(editor.functions) - 1)
    IN \/ op.name \in {"add_function", "add_function_at_index", "remove_function"}
       \/ op.name = "move_function" /\ InRange(op.index) /\ InRange(op.index + op.direction)
       \/ op.name = "on_parameter_changed" /\ InRange(op.index)

\* C35: after every committed pattern mutation the token list of the current
\* view has one non-empty token per function of the view, in the order of the
\* editor's aligned token list, and the token record in the state metadata
\* equals the editor's token record
C35_TokensFollowFunctions ==
    [][CommittedMutation =>
          LET view == get_tokens_for_current_view(editor')
          IN /\ Len(view) = Len(editor'.functions)
             /\ \A i \in 1..Len(view) : view[i] > 0
             /\ view = editor'.current_function_tokens
             /\ editor'.metadata = editor'.pattern_tokens]_vars

\* an entry was added to the view of a dict key: two functions, two tokens
C35_Witness ==
    /\ editor.last_op.name = "add_function"
    /\ editor.is_dict_mode /\ editor.selected_pattern_key # None
    /\ Len(editor.functions) = 2
    /\ Len(get_tokens_for_current_view(editor)) = 2
    /\ editor.metadata = editor.pattern_tokens

\* ------------------------------------------------ WindowManager, close_wrapper
\* C36: when a window that show_or_focus created for s handles a close event
\* while the entry of s refers to another window, that entry is removed all the
\* same and the other window is left as it is, open but unregistered
C36_CloseRemovesForeignEntry ==
    [][(/\ wlog'.op \in {"close", "close_window"} /\ wlog'.window # 0
        /\ windows[wlog'.window].wrap # None
        /\ windows[wlog'.window].wrap[1] \in DOMAIN scoped_windows
        /\ scoped_windows[windows[wlog'.window].wrap[1]] # wlog'.window) =>
          LET s == windows[wlog'.window].wrap[1]
              other == scoped_windows[s]
          IN /\ s \notin DOMAIN scoped_windows'
             /\ windows'[other] = windows[other]
             /\ \A k \in DOMAIN scoped_windows' : scoped_windows'[k] # other]_vars

\* window 1, made by show_or_focus for s1, was closed after register had put
\* window 2 in its place: window 2 is open and in no entry
C36_Witness ==
    /\ wlog.op = "close" /\ wlog.window = 1
    /\ windows[1].wrap = Some("s1") /\ ~windows[1].visible
    /\ Len(windows) >= 2
    /\ windows[2].alive /\ windows[2].visible /\ windows[2].scope = "s1"
    /\ windows[2].wrap = None
    /\ \A k \in DOMAIN scoped_windows : scoped_windows[k] # 2

NotifyErrors == {"clone_error", "callback_error"}

\* C38: if on_snapshot_changed, or the clone_snapshot feeding it, raises in the
\* poll worker, on_poll_error is invoked with that exception although the
\* fetched snapshot has already been stored as the retained snapshot, and the
\* in-flight flag is cleared when the worker ends
C38_CallbackErrorReported ==
    /\ [][\A i \in 1..Len(workers) :
             (/\ Len(workers') = Len(workers)
              /\ workers[i].pc = "except" /\ workers'[i].pc # "except"
              /\ workers[i].error \in NotifyErrors)
             => /\ workers'[i].err_calls = workers[i].err_calls + 1
                /\ workers'[i].err_arg = workers[i].error
                /\ workers[i].wrote
                /\ ~workers[i].stale => poll_snapshot = workers[i].result]_vars
    /\ [][(plog'.op = "worker_end" /\ plog'.w.error \in NotifyErrors)
             => /\ plog'.w.err_calls = 1
                /\ ~inflight']_vars

\* a worker has ended after clone_snapshot raised: the error callback was called
\* with it, the fetched snapshot is retained and no poll is in flight
C38_Witness ==
    /\ plog.op = "worker_end"
    /\ plog.w.error = "clone_error" /\ plog.w.err_arg = "clone_error"
    /\ plog.w.chg_calls = 0
    /\ poll_snapshot = plog.w.result /\ poll_snapshot # None
    /\ ~inflight

\* ------------------------------------- LiveContextService, the weak registry
\* C39: a manager that leaves the weak registry without an unregister call
\* leaves the token and the token cache as they are; a collect() made with no
\* token bump since the previous collect() returns the snapshot that call
\* returned, the values of managers dropped in between included; after a bump a
\* collect() outside the dispatch cache holds nothing of a dropped manager
C39_DroppedManagerStaysCached ==
    /\ [][(CallStep({"gc"})) =>
             /\ live_context_token_counter' = live_context_token_counter
             /\ live_context_cache' = live_context_cache
             /\ dispatch_cache' = dispatch_cache]_vars
    /\ [][(/\ CallStep({"collect"}) /\ lastSnap # None /\ since.dropped # {}
           /\ ~since.bumped /\ ~(since.viaDispatch /\ since.boundary)) =>
             /\ lastSnap' = lastSnap
             /\ snapCount' = snapCount]_vars
    /\ [][(/\ CallStep({"collect"}) /\ since.bumped
           /\ ~(dispatch_cache # None /\ "live_context" \in DOMAIN dispatch_cache[1])) =>
             \A m \in {"M1", "M2"} \ active_form_managers :
                 ~Includes(lastSnap'[1].scopes, m)]_vars

\* M2 was garbage-collected after a collect(); the next collect(), with no bump
\* in between, returned the snapshot that holds M2's values
C39_Witness ==
    /\ log.op = "collect" /\ log.had
    /\ "M2" \in log.prior.dropped /\ ~log.prior.bumped
    /\ "M2" \notin active_form_managers
    /\ Includes(lastSnap[1].scopes, "M2")
    /\ lastSnap[1].token = live_context_token_counter

\* --------------------------------------------------- ZMQServerBrowserWidgetABC
\* C40: every refresh_servers call of a widget that is not cleaning up starts a
\* scan thread of its own, also while other scans are under way; the server
\* list changes only in _update_server_list, which takes the results in the
\* order in which the scans emitted them; no step of a scan thread writes it
C40_ScansOverlapAndApplyInCompletionOrder ==
    /\ [][(browser'.last_op = "refresh_servers" /\ ~browser.is_cleaning_up) =>
             /\ Len(browser'.scans) = Len(browser.scans) + 1
             /\ browser'.scans[Len(browser'.scans)].id = browser.started + 1]_vars
    /\ [][browser'.last_op \in {"scan_ports", "emit"} =>
             /\ browser'.servers = browser.servers
             /\ browser'.applied = browser.applied]_vars
    /\ [][(browser'.servers # browser.servers \/ browser'.applied # browser.applied) =>
             /\ browser'.last_op = "_update_server_list"
             /\ browser.queue # <<>>
             /\ browser'.servers = Head(browser.queue).servers]_vars
    /\ [][\A i \in 1..Len(browser.queue) :
             (Len(browser'.queue) >= Len(browser.queue) /\ i <= Len(browser'.queue))
             => browser'.queue[i] = browser.queue[i]]_vars

\* two scans overlapped; the second, started later, finished first and its
\* result was shown, then the result of the first scan replaced it
C40_Witness ==
    /\ browser.last_op = "_update_server_list"
    /\ browser.applied = 1 /\ browser.replaced = 2
    /\ browser.servers = <<>>
    /\ browser.started = 2

====
